---- MODULE Spec2Model ----
(***************************************************************************)
(* A model of the step runtime of streamflow/workflow/step.py.             *)
(*                                                                         *)
(* The specifications below share the variables:                           *)
(*   SpecFold  the pure status fold _get_step_status, applied to every     *)
(*             status sequence up to MaxFoldLen;                           *)
(*   Spec      one step of any of the twelve kinds, run as an asyncio      *)
(*             task: BaseStep.terminate, the run method of each kind and,  *)
(*             for ExecuteStep, the run loop with its concurrent job       *)
(*             tasks (_run_job).  An action is the code between two        *)
(*             suspension points (await) of one task.                      *)
(*   SpecScatterGather  a ScatterStep whose output port is the input port  *)
(*             of a GatherStep, with tags as the strings the code splits,  *)
(*             joins and compares;                                         *)
(*   SpecCombinator     CombinatorStep.run and LoopCombinatorStep.run      *)
(*             over several input ports read by first-completed wait;      *)
(*   SpecLoopOutput     LoopOutputStep.run;                                *)
(*   SpecTupleSteps     the run methods that call their hooks once per     *)
(*             tag-complete tuple (ConditionalStep, ScheduleStep,          *)
(*             TransferStep, Transformer), with the calls made on the      *)
(*             hooks, the scheduler and the database.                      *)
(***************************************************************************)
EXTENDS Integers, Sequences, FiniteSets, TLC

VARIABLES
    foldIn,      \* SpecFold: the argument `statuses` of _get_step_status
    foldOut,     \* SpecFold: the value returned ("none" before the call)
    kind,        \* the step's class
    dports,      \* names of the step's data input ports (reserved ports excluded)
    streams,     \* data port -> the tokens its producer puts, in order
    cursor,      \* data port -> how many tokens this step's reader has taken
    step,        \* BaseStep fields: status, terminated, closed input ports, output ports
    pc,          \* where the task running Step.run is suspended
    lstatus,     \* the local variable `status` of CombinatorStep.run / TransferStep.run
    cur,         \* the token (tuple) the run loop is processing across an await
    inputs_map,  \* ExecuteStep.run: the local `inputs_map`, in insertion order
    jobs,        \* ExecuteStep.run: the local `jobs`, one record per _run_job task
    batches,     \* history: number of gather batches passed to _group_by_tag
    termCalls,   \* history: the arguments of the terminate() calls, in call order
    cancelled,   \* history: the run task was cancelled
    runError,    \* history: the error raised inside run ("none" if none)
    scatter,     \* SpecScatterGather: the ScatterStep, its input and output port
    gather,      \* SpecScatterGather: the GatherStep and its output port
    comb,        \* SpecCombinator: the (Loop)CombinatorStep and its ports
    loopout,     \* SpecLoopOutput: the LoopOutputStep and its ports
    tstep        \* SpecTupleSteps: a Conditional, Schedule, Transfer or Transformer step

vars == <<foldIn, foldOut, kind, dports, streams, cursor, step, pc, lstatus, cur,
          inputs_map, jobs, batches, termCalls, cancelled, runError,
          scatter, gather, comb, loopout, tstep>>

foldVars == <<foldIn, foldOut>>

stepVars == <<kind, dports, streams, cursor, step, pc, lstatus, cur,
              inputs_map, jobs, batches, termCalls, cancelled, runError>>

\* the steps of the other specifications
unitVars == <<scatter, gather, comb, loopout, tstep>>

\* a step object that is not constructed in the specification at hand
NoStep == [pc |-> "idle"]

UnitsIdle ==
    scatter = NoStep /\ gather = NoStep /\ comb = NoStep /\ loopout = NoStep /\ tstep = NoStep

----------------------------------------------------------------------------
\* Bounds of the model.

\* longest status sequence folded in SpecFold
MaxFoldLen == 3

\* number of distinct tags the producers of the data ports may use
MaxTags == 2

----------------------------------------------------------------------------
\* Status (streamflow.core.workflow.Status).

Statuses == {"WAITING", "FIREABLE", "RUNNING", "COMPLETED", "FAILED", "SKIPPED", "CANCELLED"}

TerminalStatuses == {"COMPLETED", "SKIPPED", "FAILED", "CANCELLED"}

----------------------------------------------------------------------------
\* _get_step_status: the loop returns at the first FAILED or CANCELLED element,
\* counting the SKIPPED ones before it; after the loop it compares the count
\* with the length.

RECURSIVE get_step_status_loop(_, _, _)
get_step_status_loop(statuses, i, num_skipped) ==
    IF i > Len(statuses)
    THEN IF num_skipped = Len(statuses) THEN "SKIPPED" ELSE "COMPLETED"
    ELSE IF statuses[i] = "FAILED" THEN "FAILED"
    ELSE IF statuses[i] = "CANCELLED" THEN "CANCELLED"
    ELSE get_step_status_loop(statuses, i + 1,
             IF statuses[i] = "SKIPPED" THEN num_skipped + 1 ELSE num_skipped)

\* a fold that forgets the CANCELLED branch
RECURSIVE get_step_status_noCancel(_, _, _)
get_step_status_noCancel(statuses, i, num_skipped) ==
    IF i > Len(statuses)
    THEN IF num_skipped = Len(statuses) THEN "SKIPPED" ELSE "COMPLETED"
    ELSE IF statuses[i] = "FAILED" THEN "FAILED"
    ELSE get_step_status_noCancel(statuses, i + 1,
             IF statuses[i] = "SKIPPED" THEN num_skipped + 1 ELSE num_skipped)

get_step_status_M1(statuses) == get_step_status_noCancel(statuses, 1, 0)

\* a fold that reports SKIPPED as soon as one element is SKIPPED
get_step_status_M2(statuses) ==
    IF \E i \in 1..Len(statuses) : statuses[i] = "SKIPPED"
    THEN "SKIPPED"
    ELSE get_step_status_loop(statuses, 1, 0)

_get_step_status(statuses) == get_step_status_loop(statuses, 1, 0)

----------------------------------------------------------------------------
\* Tokens and ports.  A tag is a natural number here (tags are opaque to the
\* steps of this model); a token's value records the port it was put on.

Tags == 0 .. (MaxTags - 1)

NoTag == -1

Token(tag, value) == [type |-> "Token", tag |-> tag, value |-> value]

ListToken(tag, value) == [type |-> "ListToken", tag |-> tag, value |-> value]

TerminationToken == [type |-> "TerminationToken", tag |-> NoTag, value |-> "none"]

\* utils.check_termination on one token
is_termination(token) == token.type = "TerminationToken"

\* utils.check_termination on a batch: any of its tokens is a TerminationToken
check_termination(inputs) == \E p \in DOMAIN inputs : is_termination(inputs[p])

\* Port.empty(): no non-termination token has ever been put
empty(queue) == \A i \in 1..Len(queue) : is_termination(queue[i])

\* Port.get(reader) returns the token under the reader's cursor, when there is one
CanGet(p) == cursor[p] < Len(streams[p])

PortGet(p) == streams[p][cursor[p] + 1]

\* Port.put(token) on every port of the set `ports`
PutAll(self, ports, token) ==
    [self EXCEPT !.out = [o \in DOMAIN @ |-> IF o \in ports THEN Append(@[o], token) ELSE @[o]]]

\* sequences of distinct tags: what one producer puts before its TerminationToken
TagSeqs ==
    {s \in UNION {[1..n -> Tags] : n \in 0..MaxTags} :
        \A i, j \in 1..Len(s) : i # j => s[i] # s[j]}

\* tags are opaque, so the tags of the first port are named in the order it
\* delivers them: 0, 1, ...
AscendingSeqs == {[i \in 1..n |-> i - 1] : n \in 0..MaxTags}

StreamOf(p, s) ==
    [i \in 1..(Len(s) + 1) |-> IF i <= Len(s) THEN Token(s[i], p) ELSE TerminationToken]

----------------------------------------------------------------------------
\* The step kinds.  Each record is read off the run method of the class:
\*   envelope    run wraps its drive loop in try/except (CancelledError ->
\*               terminate(CANCELLED), other errors -> terminate(FAILED),
\*               KeyboardInterrupt re-raised)
\*   trailing    the terminate(status) call after the try statement is reached
\*               from the handlers too (TransferStep)
\*   reserved    reserved input ports registered by __init__
\*   outputs     output port names
\*   single      run raises WorkflowDefinitionException unless it has exactly
\*               one data input port
\*   connector   run first awaits get_connector
\*   noInputs    with no data input port: run the body once, or just terminate
\*   onData      what a data token (a tag-complete tuple) leads to
\*   completedAt when the local status becomes COMPLETED
\*   onTerm      what the TerminationToken leads to
\*   final       the status of the terminate call that ends a normal run
\*   emit        whether the body puts a token on all or on some output ports

CombinatorStep ==
    [envelope |-> FALSE, trailing |-> FALSE, reserved |-> {}, outputs |-> {"a", "b"},
     single |-> FALSE, connector |-> FALSE, noInputs |-> "terminate", onData |-> "hook",
     completedAt |-> "data", onTerm |-> "exit", final |-> "local", emit |-> "some"]

ConditionalStep ==
    [envelope |-> TRUE, trailing |-> FALSE, reserved |-> {}, outputs |-> {"out"},
     single |-> FALSE, connector |-> FALSE, noInputs |-> "body", onData |-> "hook",
     completedAt |-> "never", onTerm |-> "exit", final |-> "COMPLETED", emit |-> "some"]

DeployStep ==
    [envelope |-> TRUE, trailing |-> FALSE, reserved |-> {}, outputs |-> {"deployment"},
     single |-> FALSE, connector |-> FALSE, noInputs |-> "body", onData |-> "hook",
     completedAt |-> "never", onTerm |-> "exit", final |-> "COMPLETED", emit |-> "all"]

ExecuteStep ==
    [envelope |-> FALSE, trailing |-> FALSE, reserved |-> {"__job__"}, outputs |-> {"out"},
     single |-> FALSE, connector |-> FALSE, noInputs |-> "body", onData |-> "job",
     completedAt |-> "never", onTerm |-> "exit", final |-> "fold", emit |-> "some"]

GatherStep ==
    [envelope |-> FALSE, trailing |-> FALSE, reserved |-> {}, outputs |-> {"out"},
     single |-> TRUE, connector |-> FALSE, noInputs |-> "terminate", onData |-> "store",
     completedAt |-> "never", onTerm |-> "emit", final |-> "empty", emit |-> "all"]

InputInjectorStep ==
    [envelope |-> FALSE, trailing |-> FALSE, reserved |-> {"__job__"}, outputs |-> {"out"},
     single |-> TRUE, connector |-> FALSE, noInputs |-> "terminate", onData |-> "job",
     completedAt |-> "never", onTerm |-> "exit", final |-> "empty", emit |-> "all"]

LoopCombinatorStep ==
    [envelope |-> FALSE, trailing |-> FALSE, reserved |-> {}, outputs |-> {"a", "b"},
     single |-> FALSE, connector |-> FALSE, noInputs |-> "terminate", onData |-> "hook",
     completedAt |-> "data", onTerm |-> "checklist", final |-> "local", emit |-> "some"]

LoopOutputStep ==
    [envelope |-> FALSE, trailing |-> FALSE, reserved |-> {}, outputs |-> {"out"},
     single |-> TRUE, connector |-> FALSE, noInputs |-> "terminate", onData |-> "size",
     completedAt |-> "never", onTerm |-> "if_data", final |-> "empty", emit |-> "all"]

ScheduleStep ==
    [envelope |-> TRUE, trailing |-> FALSE, reserved |-> {"__connector__"}, outputs |-> {"__job__"},
     single |-> FALSE, connector |-> TRUE, noInputs |-> "body", onData |-> "hook",
     completedAt |-> "never", onTerm |-> "exit", final |-> "empty", emit |-> "all"]

ScatterStep ==
    [envelope |-> FALSE, trailing |-> FALSE, reserved |-> {}, outputs |-> {"out"},
     single |-> TRUE, connector |-> FALSE, noInputs |-> "terminate", onData |-> "scatter",
     completedAt |-> "never", onTerm |-> "exit", final |-> "empty", emit |-> "all"]

TransferStep ==
    [envelope |-> TRUE, trailing |-> TRUE, reserved |-> {"__job__"}, outputs |-> {"a"},
     single |-> FALSE, connector |-> FALSE, noInputs |-> "terminate", onData |-> "job",
     completedAt |-> "job", onTerm |-> "exit", final |-> "local", emit |-> "all"]

Transformer ==
    [envelope |-> TRUE, trailing |-> FALSE, reserved |-> {}, outputs |-> {"a", "b"},
     single |-> FALSE, connector |-> FALSE, noInputs |-> "body", onData |-> "hook",
     completedAt |-> "never", onTerm |-> "exit", final |-> "any_empty", emit |-> "some"]

Kinds ==
    {"Combinator", "Conditional", "Deploy", "Execute", "Gather", "InputInjector",
     "LoopCombinator", "LoopOutput", "Schedule", "Scatter", "Transfer", "Transformer"}

Policy(k) ==
    CASE k = "Combinator" -> CombinatorStep
      [] k = "Conditional" -> ConditionalStep
      [] k = "Deploy" -> DeployStep
      [] k = "Execute" -> ExecuteStep
      [] k = "Gather" -> GatherStep
      [] k = "InputInjector" -> InputInjectorStep
      [] k = "LoopCombinator" -> LoopCombinatorStep
      [] k = "LoopOutput" -> LoopOutputStep
      [] k = "Schedule" -> ScheduleStep
      [] k = "Scatter" -> ScatterStep
      [] k = "Transfer" -> TransferStep
      [] OTHER -> Transformer

K == Policy(kind)

\* Step.get_input_ports(): every registered input port, the reserved ones included
get_input_ports == dports \cup K.reserved

----------------------------------------------------------------------------
\* BaseStep.terminate

\* terminate without the `if not self.terminated` guard
terminate_unguarded(self, status) ==
    [self EXCEPT !.closed = IF status # "CANCELLED" THEN get_input_ports ELSE @,
                 !.out = [o \in DOMAIN @ |-> Append(@[o], TerminationToken)],
                 !.status = status,
                 !.terminated = TRUE]

\* terminate that closes the input ports whatever the status
terminate_closing(self, status) ==
    IF ~self.terminated
    THEN [self EXCEPT !.closed = get_input_ports,
                      !.out = [o \in DOMAIN @ |-> Append(@[o], TerminationToken)],
                      !.status = status,
                      !.terminated = TRUE]
    ELSE self

terminate(self, status) ==
    IF ~self.terminated
    THEN [self EXCEPT !.closed = IF status # "CANCELLED" THEN get_input_ports ELSE @,
                      !.out = [o \in DOMAIN @ |-> Append(@[o], TerminationToken)],
                      !.status = status,
                      !.terminated = TRUE]
    ELSE self

\* a sequence of terminate calls, one after the other with no await between
RECURSIVE terminate_all(_, _)
terminate_all(self, sts) ==
    IF sts = <<>> THEN self
    ELSE terminate_all(terminate(self, Head(sts)), Tail(sts))

----------------------------------------------------------------------------
\* Construction.  Step.__init__ leaves the status WAITING and terminated False;
\* the ports are registered before run is scheduled.

PortOrder == <<"a", "b">>

InitStep(k) ==
    [status |-> "WAITING", terminated |-> FALSE, closed |-> {},
     out |-> [o \in Policy(k).outputs |-> <<>>],
     output_processors |-> "default"]

\* ExecuteStep.add_output_port: the processor of an output port is the one
\* given, or a DefaultCommandOutputProcessor.  A given processor may do all a
\* default one does; the steps with default processors are those with at most
\* one data input port.
OutputProcessors(k, ports) ==
    IF k # "Execute" THEN {"default"}
    ELSE IF Cardinality(ports) <= 1 THEN {"default", "given"}
    ELSE {"given"}

FoldIdle == foldIn = <<>> /\ foldOut = "none"

Init ==
    /\ FoldIdle
    /\ UnitsIdle
    /\ kind \in Kinds
    /\ dports \in (IF kind = "Execute" THEN {{}, {"a"}, {"a", "b"}} ELSE {{}, {"a"}})
    /\ \E ts \in [dports -> TagSeqs] :
          /\ "a" \in dports => ts["a"] \in AscendingSeqs
          /\ streams = [p \in dports |-> StreamOf(p, ts[p])]
    /\ cursor = [p \in dports |-> 0]
    /\ \E processors \in OutputProcessors(kind, dports) :
          step = [InitStep(kind) EXCEPT !.output_processors = processors]
    /\ pc = "start"
    /\ lstatus = "SKIPPED"
    /\ cur = NoTag
    /\ inputs_map = <<>>
    /\ jobs = <<>>
    /\ batches = 0
    /\ termCalls = <<>>
    /\ cancelled = FALSE
    /\ runError = "none"

----------------------------------------------------------------------------
\* How a run method ends.

\* the status of the terminate call that ends a normal run, given the step
\* as it is just before the call
FinalStatus(self) ==
    CASE K.final = "COMPLETED" -> "COMPLETED"
      [] K.final = "local" -> lstatus
      [] K.final = "empty" ->
            IF \A o \in DOMAIN self.out : empty(self.out[o]) THEN "SKIPPED" ELSE "COMPLETED"
      [] OTHER ->
            IF \E o \in DOMAIN self.out : empty(self.out[o]) THEN "SKIPPED" ELSE "COMPLETED"

\* run returns after calling terminate with each status of `sts` in turn
Finish(self, sts) ==
    /\ step' = terminate_all(self, sts)
    /\ termCalls' = termCalls \o sts
    /\ pc' = "done"

\* an exception leaves run: nothing is terminated
Escape ==
    /\ pc' = "escaped"
    /\ UNCHANGED <<step, termCalls>>

\* the handlers of the try statement, for the exception `exc` raised with the
\* local status `ls`; without a try statement the exception leaves run
Handle(exc, ls) ==
    IF K.envelope /\ exc # "KeyboardInterrupt"
    THEN Finish(step, <<IF exc = "CancelledError" THEN "CANCELLED" ELSE "FAILED">>
                      \o (IF K.trailing THEN <<ls>> ELSE <<>>))
    ELSE Escape

Generic == kind # "Execute"

TheDataPort == CHOOSE p \in dports : TRUE

----------------------------------------------------------------------------
\* The run methods of the kinds other than ExecuteStep.

\* from the call of run to its first await
RunStart ==
    /\ Generic /\ pc = "start"
    /\ UNCHANGED <<foldVars, unitVars, kind, dports, streams, cursor, lstatus, cur,
                   inputs_map, jobs, batches, cancelled>>
    /\ IF K.single /\ Cardinality(dports) # 1
       THEN Escape /\ runError' = "WorkflowDefinitionException"
       ELSE /\ runError' = runError
            /\ IF K.connector
               THEN pc' = "connector" /\ UNCHANGED <<step, termCalls>>
               ELSE IF dports # {}
               THEN pc' = "get" /\ UNCHANGED <<step, termCalls>>
               ELSE IF K.noInputs = "body"
               THEN pc' = "hook" /\ UNCHANGED <<step, termCalls>>
               ELSE Finish(step, <<FinalStatus(step)>>)

\* ScheduleStep: get_connector returns
RunConnector ==
    /\ Generic /\ pc = "connector"
    /\ pc' = IF dports # {} THEN "get" ELSE "hook"
    /\ UNCHANGED <<foldVars, unitVars, kind, dports, streams, cursor, step, lstatus, cur,
                   inputs_map, jobs, batches, termCalls, cancelled, runError>>

\* the get on the data port returns the TerminationToken
RunGetTermination ==
    /\ Generic /\ pc = "get"
    /\ LET p == TheDataPort IN
       /\ CanGet(p) /\ is_termination(PortGet(p))
       /\ cursor' = [cursor EXCEPT ![p] = @ + 1]
       /\ \E rearm \in (IF K.onTerm = "checklist" /\ cursor[p] > 0 THEN BOOLEAN ELSE {FALSE}) :
            IF rearm \/ (K.onTerm = "if_data" /\ cursor[p] = 0)
            THEN pc' = "get" /\ UNCHANGED <<step, termCalls>>
            ELSE LET self == IF K.onTerm = "emit" /\ cursor[p] > 0
                             THEN PutAll(step, K.outputs, ListToken(NoTag, "out"))
                             ELSE step
                 IN Finish(self, <<FinalStatus(self)>>)
    /\ UNCHANGED <<foldVars, unitVars, kind, dports, streams, lstatus, cur,
                   inputs_map, jobs, batches, cancelled, runError>>

\* the get on the data port returns a data token
RunGetData ==
    /\ Generic /\ pc = "get"
    /\ LET p == TheDataPort
           token == PortGet(p)
           ls == IF K.completedAt = "data" THEN "COMPLETED" ELSE lstatus
       IN
       /\ CanGet(p) /\ ~is_termination(token)
       /\ cursor' = [cursor EXCEPT ![p] = @ + 1]
       /\ cur' = token.tag
       /\ lstatus' = ls
       /\ CASE K.onData = "store" ->
                 pc' = "get" /\ UNCHANGED <<step, termCalls, runError>>
            [] K.onData = "scatter" ->
                 \E iterable \in BOOLEAN :
                    IF iterable
                    THEN /\ step' = PutAll(step, K.outputs, Token(token.tag, "out"))
                         /\ pc' = "get" /\ UNCHANGED <<termCalls, runError>>
                    ELSE Handle("WorkflowDefinitionException", ls)
                         /\ runError' = "WorkflowDefinitionException"
            [] K.onData = "job" ->
                 pc' = "job" /\ UNCHANGED <<step, termCalls, runError>>
            [] K.onData = "size" ->
                 \E reached \in BOOLEAN :
                    /\ pc' = IF reached THEN "hook" ELSE "get"
                    /\ UNCHANGED <<step, termCalls, runError>>
            [] OTHER ->
                 pc' = "hook" /\ UNCHANGED <<step, termCalls, runError>>
    /\ UNCHANGED <<foldVars, unitVars, kind, dports, streams, inputs_map, jobs, batches, cancelled>>

\* TransferStep, InputInjectorStep: get_job returns a job, or None
RunJob ==
    /\ Generic /\ pc = "job"
    /\ \E job \in {"job", "None"} :
          IF job = "None"
          THEN /\ Handle("WorkflowExecutionException", lstatus)
               /\ runError' = "WorkflowExecutionException"
               /\ lstatus' = lstatus
          ELSE /\ lstatus' = IF K.completedAt = "job" THEN "COMPLETED" ELSE lstatus
               /\ pc' = "hook"
               /\ UNCHANGED <<step, termCalls, runError>>
    /\ UNCHANGED <<foldVars, unitVars, kind, dports, streams, cursor, cur,
                   inputs_map, jobs, batches, cancelled>>

\* the awaited hook or collaborator of the loop body returns; the body puts
\* its tokens and the loop goes on (or run ends, when there is no data port)
RunHookReturn ==
    /\ Generic /\ pc = "hook"
    /\ \E ports \in (IF K.emit = "all" THEN {K.outputs} ELSE SUBSET K.outputs) :
          LET self == PutAll(step, ports, Token(cur, "out")) IN
          IF dports # {}
          THEN step' = self /\ pc' = "get" /\ termCalls' = termCalls
          ELSE Finish(self, <<FinalStatus(self)>>)
    /\ UNCHANGED <<foldVars, unitVars, kind, dports, streams, cursor, lstatus, cur,
                   inputs_map, jobs, batches, cancelled, runError>>

\* the awaited hook or collaborator raises
RunHookRaise ==
    /\ Generic /\ pc = "hook"
    /\ \E exc \in {"WorkflowException", "Exception", "KeyboardInterrupt"} :
          /\ Handle(exc, lstatus)
          /\ runError' = exc
    /\ UNCHANGED <<foldVars, unitVars, kind, dports, streams, cursor, lstatus, cur,
                   inputs_map, jobs, batches, cancelled>>

----------------------------------------------------------------------------
\* _group_by_tag and the tag loop of ExecuteStep.run.  inputs_map is kept as
\* the sequence of its items (a dict iterates in insertion order); an item is
\* [tag, toks] with toks the inner dict port name -> token.

IndexOfTag(m, tag) ==
    IF \E i \in 1..Len(m) : m[i].tag = tag
    THEN CHOOSE i \in 1..Len(m) : m[i].tag = tag
    ELSE 0

\* inner[name] = token
SetItem(inner, name, token) ==
    [q \in (DOMAIN inner) \cup {name} |-> IF q = name THEN token ELSE inner[q]]

\* a grouping that starts a new item for every token
RECURSIVE group_by_tag_split(_, _, _)
group_by_tag_split(names, inputs, m) ==
    IF names = <<>> THEN m
    ELSE IF Head(names) \notin DOMAIN inputs
    THEN group_by_tag_split(Tail(names), inputs, m)
    ELSE LET name == Head(names)
             token == inputs[name]
         IN group_by_tag_split(Tail(names), inputs,
                Append(m, [tag |-> token.tag, toks |-> SetItem(<<>>, name, token)]))

\* `names` are the keys of `inputs` still to visit, in the order of the dict
RECURSIVE _group_by_tag(_, _, _)
_group_by_tag(names, inputs, m) ==
    IF names = <<>> THEN m
    ELSE IF Head(names) \notin DOMAIN inputs
    THEN _group_by_tag(Tail(names), inputs, m)
    ELSE LET name == Head(names)
             token == inputs[name]
             m1 == IF IndexOfTag(m, token.tag) = 0
                   THEN Append(m, [tag |-> token.tag, toks |-> <<>>])
                   ELSE m
             i == IndexOfTag(m1, token.tag)
         IN _group_by_tag(Tail(names), inputs,
                [m1 EXCEPT ![i].toks = SetItem(@, name, token)])

\* len(inputs_map[tag]) == len(input_ports)
IsComplete(item) == Cardinality(DOMAIN item.toks) = Cardinality(dports)

SelectItems(m, Keep(_)) ==
    LET F[i \in 0..Len(m)] ==
            IF i = 0 THEN <<>>
            ELSE IF Keep(m[i]) THEN Append(F[i - 1], m[i]) ELSE F[i - 1]
    IN F[Len(m)]

CompleteItems(m) == SelectItems(m, IsComplete)

IncompleteItems(m) == SelectItems(m, LAMBDA item : ~IsComplete(item))

\* asyncio.create_task(self._run_job(inputs)): the task has not run yet
NewJob(tag, inputs) ==
    [tag |-> tag, inputs |-> inputs, pc |-> "get_job", status |-> "FAILED",
     value |-> "none", pending |-> "none", cancel |-> FALSE,
     name |-> "none", notified |-> <<>>, emitted |-> {}, executing |-> FALSE]

----------------------------------------------------------------------------
\* ExecuteStep.run

\* from the call of run to its first await
ExecStart ==
    /\ kind = "Execute" /\ pc = "start"
    /\ IF dports # {}
       THEN pc' = "get_inputs" /\ jobs' = jobs
       ELSE pc' = "await_jobs" /\ jobs' = Append(jobs, NewJob(NoTag, <<>>))
    /\ UNCHANGED <<foldVars, unitVars, kind, dports, streams, cursor, step, lstatus, cur,
                   inputs_map, batches, termCalls, cancelled, runError>>

\* _get_inputs returns a batch (one get per data port); the loop body runs to
\* the next await: break on termination, else group, pop the complete tags and
\* create one job task for each
ExecGetInputs ==
    /\ kind = "Execute" /\ pc = "get_inputs"
    /\ \A p \in dports : CanGet(p)
    /\ LET inputs == [p \in dports |-> PortGet(p)] IN
       /\ cursor' = [p \in dports |-> cursor[p] + 1]
       /\ IF check_termination(inputs)
          THEN /\ pc' = "await_jobs"
               /\ UNCHANGED <<step, inputs_map, jobs, batches>>
          ELSE LET m == _group_by_tag(PortOrder, inputs, inputs_map)
                   complete == CompleteItems(m)
               IN /\ pc' = "get_inputs"
                  /\ batches' = batches + 1
                  /\ inputs_map' = IncompleteItems(m)
                  /\ jobs' = jobs \o [i \in 1..Len(complete) |->
                                        NewJob(complete[i].tag, complete[i].toks)]
                  /\ step' = IF complete # <<>>
                             THEN [step EXCEPT !.status = "FIREABLE"]
                             ELSE step
    /\ UNCHANGED <<foldVars, unitVars, kind, dports, streams, lstatus, cur,
                   termCalls, cancelled, runError>>

JobDone(j) == jobs[j].pc \in {"returned", "raised"}

JobStatuses == [j \in 1..Len(jobs) |-> jobs[j].status]

\* a run that folds as soon as one job task has returned
ExecAwaitJobs_early ==
    /\ kind = "Execute" /\ pc = "await_jobs"
    /\ \E j \in 1..Len(jobs) : jobs[j].pc = "returned"
    /\ Finish(step, <<_get_step_status(JobStatuses)>>)
    /\ UNCHANGED <<foldVars, unitVars, kind, dports, streams, cursor, lstatus, cur,
                   inputs_map, jobs, batches, cancelled, runError>>

\* asyncio.gather(*jobs) returns the statuses once every task has returned, and
\* raises as soon as one task has raised; then terminate(fold)
ExecAwaitJobs ==
    /\ kind = "Execute" /\ pc = "await_jobs"
    /\ IF \E j \in 1..Len(jobs) : jobs[j].pc = "raised"
       THEN Escape
       ELSE /\ \A j \in 1..Len(jobs) : jobs[j].pc = "returned"
            /\ Finish(step, <<_get_step_status(JobStatuses)>>)
    /\ UNCHANGED <<foldVars, unitVars, kind, dports, streams, cursor, lstatus, cur,
                   inputs_map, jobs, batches, cancelled, runError>>

----------------------------------------------------------------------------
\* ExecuteStep._run_job, one task per element of jobs.  A job record holds the
\* task's position (pc), command_output.status (status), command_output.value
\* as the name of the call that returned it (value), an exception to re-raise
\* after the finally clause (pending), a cancellation not yet delivered
\* (cancel) and, as history, the job descriptor obtained (name), the
\* notify_status calls made (notified), the output ports the task has put a
\* token on (emitted) and whether every job task was suspended on
\* command.execute when the run task was cancelled (executing).  command.execute is called as
\* soon as notify_status(RUNNING) has returned.

SetJob(j, rec) == jobs' = [jobs EXCEPT ![j] = rec]

Notify(job, name, status) ==
    [job EXCEPT !.notified = Append(@, [name |-> name, status |-> status])]

JobFrame == UNCHANGED <<foldVars, unitVars, kind, dports, streams, cursor, pc, lstatus, cur,
                        inputs_map, batches, cancelled>>

\* step terminated by the job task with `status`, which is also stored in
\* command_output.status; the finally clause comes next
JobTerminate(j, status) ==
    /\ SetJob(j, [jobs[j] EXCEPT !.status = status, !.pc = "notify_final"])
    /\ step' = terminate(step, status)
    /\ termCalls' = Append(termCalls, status)

\* the except clauses of the try statement of _run_job, for an exception raised
\* by notify_status(RUNNING), command.execute or handle_failure
JobExcept(j, exc) ==
    CASE exc = "KeyboardInterrupt" ->
            /\ SetJob(j, [jobs[j] EXCEPT !.pending = exc, !.pc = "notify_final"])
            /\ UNCHANGED <<step, termCalls>>
      [] exc = "CancelledError" -> JobTerminate(j, "CANCELLED")
      [] exc = "FailureHandlingException" -> JobTerminate(j, "FAILED")
      [] OTHER ->
            /\ SetJob(j, [jobs[j] EXCEPT !.pc = "handle_exception"])
            /\ UNCHANGED <<step, termCalls>>

\* get_job returns: a null job raises outside the try statement; otherwise the
\* task goes on to its next await, notify_status(self.name, RUNNING)
JobGetJob(j) ==
    /\ kind = "Execute" /\ jobs[j].pc = "get_job" /\ ~jobs[j].cancel
    /\ \E job \in {"job", "None"} :
          IF job = "None"
          THEN /\ SetJob(j, [jobs[j] EXCEPT !.pc = "raised"])
               /\ runError' = "WorkflowExecutionException"
               /\ step' = step
          ELSE /\ SetJob(j, [jobs[j] EXCEPT !.pc = "notify_running", !.name = "job"])
               /\ runError' = runError
               /\ step' = IF ~step.terminated
                          THEN [step EXCEPT !.status = "RUNNING"]
                          ELSE step
    /\ termCalls' = termCalls
    /\ JobFrame

\* notify_status(self.name, RUNNING) returns; command.execute is awaited
JobNotifyRunning(j) ==
    /\ kind = "Execute" /\ jobs[j].pc = "notify_running" /\ ~jobs[j].cancel
    /\ SetJob(j, [Notify(jobs[j], "step", "RUNNING") EXCEPT !.pc = "execute"])
    /\ UNCHANGED <<step, termCalls, runError>>
    /\ JobFrame

\* command.execute returns a CommandOutput, or raises
JobExecute(j) ==
    /\ kind = "Execute" /\ jobs[j].pc = "execute" /\ ~jobs[j].cancel
    /\ \/ \E st \in {"COMPLETED", "SKIPPED", "FAILED"} :
             /\ SetJob(j, [jobs[j] EXCEPT !.status = st, !.value = "command",
                              !.pc = IF st = "FAILED" THEN "handle_failure" ELSE "notify_final"])
             /\ UNCHANGED <<step, termCalls>>
       \/ \E exc \in {"FailureHandlingException", "WorkflowException", "Exception",
                      "KeyboardInterrupt"} :
             JobExcept(j, exc)
    /\ runError' = runError
    /\ JobFrame

\* failure_manager.handle_failure returns a CommandOutput, or raises
JobHandleFailure(j) ==
    /\ kind = "Execute" /\ jobs[j].pc = "handle_failure" /\ ~jobs[j].cancel
    /\ \/ \E st \in {"COMPLETED", "FAILED"} :
             /\ SetJob(j, [jobs[j] EXCEPT !.status = st, !.value = "handle_failure",
                              !.pc = "notify_final"])
             /\ UNCHANGED <<step, termCalls>>
       \/ \E exc \in {"FailureHandlingException", "WorkflowException", "Exception",
                      "KeyboardInterrupt"} :
             JobExcept(j, exc)
    /\ runError' = runError
    /\ JobFrame

\* failure_manager.handle_exception returns a CommandOutput, or raises
\* (except BaseException: the step is terminated as FAILED)
JobHandleException(j) ==
    /\ kind = "Execute" /\ jobs[j].pc = "handle_exception" /\ ~jobs[j].cancel
    /\ \/ \E st \in {"COMPLETED", "FAILED"} :
             /\ SetJob(j, [jobs[j] EXCEPT !.status = st, !.value = "handle_exception",
                              !.pc = "notify_final"])
             /\ UNCHANGED <<step, termCalls>>
       \/ JobTerminate(j, "FAILED")
    /\ runError' = runError
    /\ JobFrame

\* the finally clause: notify_status(job.name, command_output.status) returns;
\* then a pending exception propagates, or the output processors are started
\* when the step is not terminated
JobNotifyFinal(j) ==
    /\ kind = "Execute" /\ jobs[j].pc = "notify_final" /\ ~jobs[j].cancel
    /\ SetJob(j, [Notify(jobs[j], "job", jobs[j].status) EXCEPT
                     !.pc = IF jobs[j].pending # "none" THEN "raised"
                            ELSE IF ~step.terminated THEN "outputs"
                            ELSE "returned",
                     !.value = IF jobs[j].pending = "none" /\ ~step.terminated
                               THEN @ ELSE "none"])
    /\ UNCHANGED <<step, termCalls, runError>>
    /\ JobFrame

\* a processor that returns the value the command returned at first
process_command(job, command_output) == Token(job.tag, "command")

\* DefaultCommandOutputProcessor.process: the tag of the job's inputs and the
\* value of the command output
process(job, command_output) == Token(job.tag, command_output.value)

\* self.output_processors[output_name].process, when it returns a token
process_output(job, command_output) ==
    IF step.output_processors = "default"
    THEN process(job, command_output)
    ELSE Token(job.tag, "out")

\* the gather over _retrieve_output returns or raises: the processors of
\* `ports` returned a token, which was persisted and put; one that raised
\* makes the job FAILED.  A DefaultCommandOutputProcessor always returns a
\* token; a processor given to add_output_port may return None or raise.
JobOutputs(j) ==
    /\ kind = "Execute" /\ jobs[j].pc = "outputs" /\ ~jobs[j].cancel
    /\ \E ports \in SUBSET K.outputs, raised \in BOOLEAN :
          /\ raised => ports # K.outputs
          /\ step.output_processors = "default" => ports = K.outputs
          /\ step' = PutAll(step, ports,
                            process_output(jobs[j], [value |-> jobs[j].value,
                                                     status |-> jobs[j].status]))
          /\ SetJob(j, [jobs[j] EXCEPT !.pc = "returned", !.emitted = ports,
                           !.value = "none",
                           !.status = IF raised THEN "FAILED" ELSE @])
          /\ runError' = IF raised THEN "Exception" ELSE runError
    /\ termCalls' = termCalls
    /\ JobFrame

\* the task's cancellation is delivered at the await it is suspended on
JobCancelled(j) ==
    /\ kind = "Execute" /\ jobs[j].cancel /\ ~JobDone(j)
    /\ LET job == [jobs[j] EXCEPT !.cancel = FALSE] IN
       CASE job.pc \in {"notify_running", "execute", "handle_failure"} ->
               \* except CancelledError
               /\ SetJob(j, [job EXCEPT !.status = "CANCELLED", !.pc = "notify_final"])
               /\ step' = terminate(step, "CANCELLED")
               /\ termCalls' = Append(termCalls, "CANCELLED")
         [] job.pc = "handle_exception" ->
               \* except BaseException as ie
               /\ SetJob(j, [job EXCEPT !.status = "FAILED", !.pc = "notify_final"])
               /\ step' = terminate(step, "FAILED")
               /\ termCalls' = Append(termCalls, "FAILED")
         [] job.pc = "outputs" ->
               \* except BaseException as e
               /\ SetJob(j, [job EXCEPT !.status = "FAILED", !.pc = "returned",
                                        !.value = "none"])
               /\ UNCHANGED <<step, termCalls>>
         [] OTHER ->
               \* get_job and the finally clause are outside every handler
               /\ SetJob(j, [job EXCEPT !.pc = "raised", !.value = "none"])
               /\ UNCHANGED <<step, termCalls>>
    /\ runError' = runError
    /\ JobFrame

----------------------------------------------------------------------------
\* Cancellation of the task running Step.run, at the await it is suspended on.

CancelRun ==
    /\ Generic /\ pc \in {"connector", "get", "job", "hook"} /\ ~cancelled
    /\ cancelled' = TRUE
    /\ Handle("CancelledError", lstatus)
    /\ UNCHANGED <<foldVars, unitVars, kind, dports, streams, cursor, lstatus, cur,
                   inputs_map, jobs, batches, runError>>

\* ExecuteStep.run has no handler: CancelledError leaves run.  Cancelling the
\* gather over the job tasks cancels every task that is not done.
ExecCancelRun ==
    /\ kind = "Execute" /\ pc \in {"get_inputs", "await_jobs"} /\ ~cancelled
    /\ cancelled' = TRUE
    /\ Escape
    /\ jobs' = [j \in 1..Len(jobs) |->
                  [jobs[j] EXCEPT !.cancel = (pc = "await_jobs" /\ ~JobDone(j)),
                                  !.executing =
                                      \A k \in 1..Len(jobs) : jobs[k].pc = "execute"]]
    /\ UNCHANGED <<foldVars, unitVars, kind, dports, streams, cursor, lstatus, cur,
                   inputs_map, batches, runError>>

----------------------------------------------------------------------------
\* The specification of one step.

Next ==
    \/ RunStart
    \/ RunConnector
    \/ RunGetTermination
    \/ RunGetData
    \/ RunJob
    \/ RunHookReturn
    \/ RunHookRaise
    \/ CancelRun
    \/ ExecStart
    \/ ExecGetInputs
    \/ ExecAwaitJobs
    \/ ExecCancelRun
    \/ \E j \in 1..Len(jobs) :
          \/ JobGetJob(j)
          \/ JobNotifyRunning(j)
          \/ JobExecute(j)
          \/ JobHandleFailure(j)
          \/ JobHandleException(j)
          \/ JobNotifyFinal(j)
          \/ JobOutputs(j)
          \/ JobCancelled(j)

Spec == Init /\ [][Next]_vars

----------------------------------------------------------------------------
\* The specification of the status fold: every status sequence up to
\* MaxFoldLen is an argument, and Fold is the call.

StepIdle ==
    /\ kind = "Execute"
    /\ dports = {}
    /\ streams = <<>>
    /\ cursor = <<>>
    /\ step = InitStep("Execute")
    /\ pc = "idle"
    /\ lstatus = "SKIPPED"
    /\ cur = NoTag
    /\ inputs_map = <<>>
    /\ jobs = <<>>
    /\ batches = 0
    /\ termCalls = <<>>
    /\ cancelled = FALSE
    /\ runError = "none"

InitFold ==
    /\ foldIn \in UNION {[1..n -> Statuses] : n \in 0..MaxFoldLen}
    /\ foldOut = "none"
    /\ StepIdle
    /\ UnitsIdle

Fold ==
    /\ foldOut = "none"
    /\ foldOut' = _get_step_status(foldIn)
    /\ UNCHANGED <<foldIn, stepVars, unitVars>>

NextFold == Fold

SpecFold == InitFold /\ [][NextFold]_vars

----------------------------------------------------------------------------
\* Properties of BaseStep.terminate.

TermCount(queue) == Cardinality({i \in 1..Len(queue) : is_termination(queue[i])})

OneTerminationTokenEach == \A o \in DOMAIN step.out : TermCount(step.out[o]) = 1

C1_State ==
    /\ step.terminated <=> termCalls # <<>>
    /\ \A o \in DOMAIN step.out :
          TermCount(step.out[o]) = (IF termCalls # <<>> THEN 1 ELSE 0)
    /\ (kind # "Execute" /\ termCalls # <<>>) => step.status = termCalls[1]

C1_Call ==
    termCalls' # termCalls =>
       IF termCalls = <<>>
       THEN /\ step'.status = termCalls'[1]
            /\ \A o \in DOMAIN step.out :
                  /\ TermCount(step'.out[o]) = TermCount(step.out[o]) + 1
                  /\ is_termination(step'.out[o][Len(step'.out[o])])
       ELSE step' = step

C2_TerminalFinal ==
    [][step.status \in TerminalStatuses => step'.status = step.status]_vars

RunOver == pc \in {"done", "escaped"} /\ \A j \in 1..Len(jobs) : JobDone(j)

\* C4: for every step kind, once the cancelled run task (and the job tasks it
\* cancelled) has finished, the step is CANCELLED, every output port holds a
\* TerminationToken and no input port is closed.
C4_CancelTerminates ==
    (cancelled /\ RunOver) =>
        /\ step.status = "CANCELLED"
        /\ OneTerminationTokenEach
        /\ step.closed = {}

\* C5: for every step kind, once a run in which an error other than
\* CancelledError and KeyboardInterrupt was raised has finished, the step is
\* FAILED and every output port holds a TerminationToken.
C5_ErrorFails ==
    (runError \notin {"none", "KeyboardInterrupt"} /\ ~cancelled /\ RunOver) =>
        /\ step.status = "FAILED"
        /\ OneTerminationTokenEach

----------------------------------------------------------------------------
\* Properties of the status fold (under SpecFold).

Has(statuses, st) == \E i \in 1..Len(statuses) : statuses[i] = st

\* C6 as stated: the result is CANCELLED whenever one element is CANCELLED.
C6_CancelledDominates ==
    foldOut # "none" => (Has(foldIn, "CANCELLED") => foldOut = "CANCELLED")

\* C6, amended: the result is CANCELLED whenever an element is CANCELLED and
\* no FAILED element comes before the first CANCELLED one (in particular
\* whenever there is a CANCELLED and no FAILED element).
C6_CancelledUnlessFailedFirst ==
    foldOut # "none" =>
        ((\E i \in 1..Len(foldIn) :
             /\ foldIn[i] = "CANCELLED"
             /\ \A j \in 1..(i - 1) : foldIn[j] # "FAILED")
         => foldOut = "CANCELLED")

\* CANCELLED before a FAILED element folds to CANCELLED
C6_Witness ==
    /\ foldIn = <<"COMPLETED", "CANCELLED", "FAILED">>
    /\ foldOut = "CANCELLED"

\* C7: one FAILED dominates: a sequence with a FAILED element folds to FAILED
\* whatever else it holds, and a sequence with CANCELLED and no FAILED never
\* folds to COMPLETED.
C7_FailedDominates ==
    foldOut # "none" =>
        /\ Has(foldIn, "FAILED") => foldOut = "FAILED"
        /\ (Has(foldIn, "CANCELLED") /\ ~Has(foldIn, "FAILED")) => foldOut # "COMPLETED"

\* C8: the result is SKIPPED if and only if every element is SKIPPED (the
\* empty sequence included), and a sequence with no FAILED, no CANCELLED and
\* an element that is not SKIPPED folds to COMPLETED.
C8_SkippedIffAllSkipped ==
    foldOut # "none" =>
        /\ foldOut = "SKIPPED" <=> (\A i \in 1..Len(foldIn) : foldIn[i] = "SKIPPED")
        /\ (/\ ~Has(foldIn, "FAILED")
            /\ ~Has(foldIn, "CANCELLED")
            /\ \E i \in 1..Len(foldIn) : foldIn[i] # "SKIPPED")
           => foldOut = "COMPLETED"

\* the empty sequence was folded
C8_Witness == foldIn = <<>> /\ foldOut = "SKIPPED"

----------------------------------------------------------------------------
\* Properties of ExecuteStep.run.

\* port p delivered a data token with tag t in a batch that was grouped
Grouped(p, t) == \E i \in 1..batches : streams[p][i] = Token(t, p)

\* C9: ExecuteStep spawns exactly one job task per tag-complete tuple over
\* its data input ports.  A tuple is complete when _group_by_tag has received
\* a token with its tag from every data port (the tags of one port being
\* distinct): between two batches the tags that have a job task are exactly
\* those tags, no tag has two, and the inputs of the task are the tokens of
\* that tag, one per data port, __job__ excluded.  With no data input port
\* there is exactly one job task, with the empty input set.
C9_OneJobPerTuple ==
    kind = "Execute" =>
        IF dports = {}
        THEN IF pc = "start" THEN jobs = <<>>
             ELSE Len(jobs) = 1 /\ DOMAIN jobs[1].inputs = {}
        ELSE /\ \A j \in 1..Len(jobs) :
                   /\ DOMAIN jobs[j].inputs = dports
                   /\ \A p \in dports :
                         /\ jobs[j].inputs[p] = Token(jobs[j].tag, p)
                         /\ Grouped(p, jobs[j].tag)
             /\ \A i, j \in 1..Len(jobs) : i # j => jobs[i].tag # jobs[j].tag
             /\ \A t \in Tags :
                   (\A p \in dports : Grouped(p, t))
                      <=> (\E j \in 1..Len(jobs) : jobs[j].tag = t)

\* two ports deliver two tags in opposite orders: both tuples are completed
\* by the second batch and each has its job task
C9_Witness ==
    /\ kind = "Execute"
    /\ dports = {"a", "b"}
    /\ streams["b"][1] = Token(1, "b")
    /\ Len(jobs) = 2
    /\ inputs_map = <<>>

\* C10 as stated: the status is terminal only after every data input port
\* has delivered its TerminationToken and every job task has returned, and it
\* is the fold of the job statuses.
C10_TerminalOnlyAfterAll ==
    (kind = "Execute" /\ step.status \in TerminalStatuses) =>
        /\ \A p \in dports : cursor[p] = Len(streams[p])
        /\ \A j \in 1..Len(jobs) : jobs[j].pc = "returned"
        /\ step.status = _get_step_status(JobStatuses)

\* C10, amended: ExecuteStep.run calls terminate, with the fold of the
\* statuses returned by all its job tasks, only after a batch holding a
\* TerminationToken was read (when it has data ports) and every spawned job
\* task has returned; that call sets the terminal status unless a job task
\* has terminated the step before, which a job task does only with FAILED or
\* CANCELLED, its own status.
C10_FoldAfterJobs ==
    kind = "Execute" =>
        /\ pc = "done" =>
              /\ dports # {} => \E p \in dports : cursor[p] = Len(streams[p])
              /\ \A j \in 1..Len(jobs) : jobs[j].pc = "returned"
              /\ termCalls # <<>>
              /\ termCalls[Len(termCalls)] = _get_step_status(JobStatuses)
              /\ Len(termCalls) = 1 => step.status = _get_step_status(JobStatuses)
        /\ \A i \in 1..Len(termCalls) :
              (i < Len(termCalls) \/ pc # "done") =>
                  /\ termCalls[i] \in {"FAILED", "CANCELLED"}
                  /\ \E j \in 1..Len(jobs) : jobs[j].status = termCalls[i]

\* two job tasks returned and the run loop terminated the step with their fold
C10_Witness ==
    /\ kind = "Execute"
    /\ pc = "done"
    /\ Len(jobs) = 2
    /\ termCalls = <<"COMPLETED">>
    /\ step.status = "COMPLETED"

----------------------------------------------------------------------------
\* Tag grouping over two data ports.

\* port p has delivered a data token with tag t to the step's reader
Delivered(p, t) == \E i \in 1..cursor[p] : streams[p][i] = Token(t, p)

\* C11: in a gather-based step with two or more data input ports, every tag
\* for which each data port has delivered a non-termination token is
\* processed exactly once as a complete tuple (here: has exactly one job
\* task of ExecuteStep) and is no longer in inputs_map, whatever the order of
\* the tags on each port, also when the TerminationToken of one port comes
\* in the same batch as the last data token of another.  Stated of a run
\* that ended normally.
C11_EveryCompleteTagProcessedOnce ==
    (kind = "Execute" /\ Cardinality(dports) >= 2 /\ pc = "done"
        /\ ~cancelled /\ runError = "none") =>
        \A t \in Tags :
            (\A p \in dports : Delivered(p, t)) =>
                /\ Cardinality({j \in 1..Len(jobs) : jobs[j].tag = t}) = 1
                /\ IndexOfTag(inputs_map, t) = 0

----------------------------------------------------------------------------
\* Tags as Python strings.  A string is the sequence of its character codes;
\* the operators below are str, int, str.split('.'), '.'.join, the slice
\* [:-d] and the comparison of two strings, computed on the characters.

Dot == 46

\* the character of the decimal digit d
Digit(d) == 48 + d

\* the letters the producers use in the segments they choose
Letters == {97, 98}

\* str(i), i >= 0
RECURSIVE str(_)
str(i) == IF i < 10 THEN <<Digit(i)>> ELSE Append(str(i \div 10), Digit(i % 10))

\* int(s), s a non-empty string of decimal digits
RECURSIVE int(_)
int(s) ==
    IF Len(s) = 1 THEN s[1] - Digit(0)
    ELSE 10 * int(SubSeq(s, 1, Len(s) - 1)) + (s[Len(s)] - Digit(0))

\* s.split('.'): the list of the segments; ''.split('.') is ['']
split(s) ==
    LET F[i \in 0..Len(s)] ==
            IF i = 0 THEN << <<>> >>
            ELSE IF s[i] = Dot THEN Append(F[i - 1], <<>>)
            ELSE [F[i - 1] EXCEPT ![Len(F[i - 1])] = Append(@, s[i])]
    IN F[Len(s)]

\* '.'.join(segs)
RECURSIVE join(_)
join(segs) ==
    IF segs = <<>> THEN <<>>
    ELSE IF Len(segs) = 1 THEN segs[1]
    ELSE segs[1] \o <<Dot>> \o join(Tail(segs))

\* segs[:-d] for d >= 1: empty when the list has d elements or fewer
drop_last(segs, d) == IF Len(segs) > d THEN SubSeq(segs, 1, Len(segs) - d) ELSE <<>>

\* '.'.join(tag.split('.')[:-d])
prefix(tag, d) == join(drop_last(split(tag), d))

\* tag.split('.')[-1]
last_segment(tag) == split(tag)[Len(split(tag))]

\* x < y on strings: by character code, a proper prefix being smaller
RECURSIVE str_lt(_, _)
str_lt(x, y) ==
    IF y = <<>> THEN FALSE
    ELSE IF x = <<>> THEN TRUE
    ELSE IF x[1] # y[1] THEN x[1] < y[1]
    ELSE str_lt(Tail(x), Tail(y))

\* sorted(tokens, key=lambda cur: cur.tag): stable, ascending on the tag string
sorted(tokens) ==
    LET Insert(s, t) ==
            LET after == {i \in 1..Len(s) : str_lt(t.tag, s[i].tag)}
                k == IF after = {} THEN Len(s) + 1
                     ELSE CHOOSE i \in after : \A j \in after : i <= j
            IN SubSeq(s, 1, k - 1) \o <<t>> \o SubSeq(s, k, Len(s))
        F[i \in 0..Len(tokens)] ==
            IF i = 0 THEN <<>> ELSE Insert(F[i - 1], tokens[i])
    IN F[Len(tokens)]

\* Token values: a Python list of tokens, or a datum that is neither a list
\* nor a token
PyList(items) == [type |-> "list", items |-> items]

PyData(v) == [type |-> "data", v |-> v]

\* isinstance(v, Token)
IsToken(v) == v.type \in {"Token", "ListToken", "TerminationToken"}

\* token.retag(tag): the same token under another tag
retag(token, tag) == [token EXCEPT !.tag = tag]

\* a step object as BaseStep.__init__ leaves it, with one output port
NewStep == [status |-> "WAITING", terminated |-> FALSE, closed |-> {}, out |-> [out |-> <<>>]]

\* the variables of Spec when the step of Spec is not run; kind and dports
\* name the class and the input ports of the step that is
UnitInit(k, ports) ==
    /\ FoldIdle
    /\ kind = k
    /\ dports = ports
    /\ streams = <<>>
    /\ cursor = <<>>
    /\ step = InitStep(k)
    /\ pc = "idle"
    /\ lstatus = "SKIPPED"
    /\ cur = NoTag
    /\ inputs_map = <<>>
    /\ jobs = <<>>
    /\ batches = 0
    /\ termCalls = <<>>
    /\ cancelled = FALSE
    /\ runError = "none"

----------------------------------------------------------------------------
\* ScatterStep and GatherStep: the output port of the ScatterStep is the
\* input port of the GatherStep.

\* longest list a ListToken carries
MaxElems == 11

\* largest depth of the GatherStep
MaxDepth == 3

\* number of tokens the producer puts on the input port of the ScatterStep
MaxLists == 2

\* the tags of the tokens put on the input port of the ScatterStep
ListTags == {<<l>> : l \in Letters}

ListLens == {0, 1, 2, MaxElems}

\* the elements of the k-th list: their value tells the list and the position
Elems(k, n) == [i \in 1..n |-> Token(str(0), PyData(<<k, i - 1>>))]

\* what the producer may put as k-th token: a ListToken, a token that wraps a
\* ListToken, a token whose value is not iterable
ScatterInputs(k) ==
    {ListToken(T, PyList(Elems(k, n))) : T \in ListTags, n \in ListLens}
        \cup {Token(<<97>>, ListToken(<<98>>, PyList(Elems(k, 1)))),
              Token(<<97>>, PyData(k))}

\* a _scatter that numbers the elements from 1
RECURSIVE _scatter_from1(_)
_scatter_from1(token) ==
    IF IsToken(token.value) THEN _scatter_from1(token.value)
    ELSE IF token.type = "ListToken"
    THEN [ok |-> TRUE,
          puts |-> [i \in 1..Len(token.value.items) |->
                      retag(token.value.items[i], token.tag \o <<Dot>> \o str(i))]]
    ELSE [ok |-> FALSE, puts |-> <<>>]

\* the tokens ScatterStep._scatter(token) puts, in order; ok is FALSE when it
\* raises WorkflowDefinitionException (nothing is put before)
RECURSIVE _scatter(_)
_scatter(token) ==
    IF IsToken(token.value) THEN _scatter(token.value)
    ELSE IF token.type = "ListToken"
    THEN [ok |-> TRUE,
          puts |-> [i \in 1..Len(token.value.items) |->
                      retag(token.value.items[i], token.tag \o <<Dot>> \o str(i - 1))]]
    ELSE [ok |-> FALSE, puts |-> <<>>]

\* the status of the terminate call of a step with the single output port
EmptyStatus(self) == IF empty(self.out.out) THEN "SKIPPED" ELSE "COMPLETED"

\* ScatterStep.run: the get returns; the body runs to the next get
ScatterGet ==
    /\ scatter.pc = "get"
    /\ scatter.cursor < Len(scatter.input_port)
    /\ LET token == scatter.input_port[scatter.cursor + 1]
           next == [scatter EXCEPT !.cursor = @ + 1]
       IN IF is_termination(token)
          THEN scatter' = [next EXCEPT !.pc = "done",
                                       !.self = terminate(@, EmptyStatus(@))]
          ELSE LET r == _scatter(token)
               IN IF r.ok
                  THEN scatter' = [next EXCEPT !.self.out.out = @ \o r.puts]
                  ELSE scatter' = [next EXCEPT !.pc = "escaped"]
    /\ UNCHANGED <<foldVars, stepVars, gather, comb, loopout, tstep>>

\* token_map as the sequence of its items [key, tokens], in insertion order
IndexOfKey(m, key) ==
    IF \E i \in 1..Len(m) : m[i].key = key
    THEN CHOOSE i \in 1..Len(m) : m[i].key = key
    ELSE 0

\* a token_map that keeps only the last token of each key
MapAppend_last(m, key, token) ==
    LET m1 == IF IndexOfKey(m, key) = 0 THEN Append(m, [key |-> key, tokens |-> <<>>]) ELSE m
    IN [m1 EXCEPT ![IndexOfKey(m1, key)].tokens = <<token>>]

\* token_map[key].append(token), after creating the entry if there is none
MapAppend(m, key, token) ==
    LET m1 == IF IndexOfKey(m, key) = 0 THEN Append(m, [key |-> key, tokens |-> <<>>]) ELSE m
    IN [m1 EXCEPT ![IndexOfKey(m1, key)].tokens = Append(@, token)]

\* the ListTokens the GatherStep puts when its input terminates
GatherEmit(m) == [i \in 1..Len(m) |-> ListToken(m[i].key, PyList(sorted(m[i].tokens)))]

\* GatherStep.run: the get returns; the body runs to the next get
GatherGet ==
    /\ gather.pc = "get"
    /\ gather.cursor < Len(scatter.self.out.out)
    /\ LET token == scatter.self.out.out[gather.cursor + 1]
           next == [gather EXCEPT !.cursor = @ + 1]
       IN IF is_termination(token)
          THEN LET put == [next EXCEPT !.self.out.out = @ \o GatherEmit(gather.token_map)]
               IN gather' = [put EXCEPT !.pc = "done",
                                        !.self = terminate(@, EmptyStatus(@))]
          ELSE gather' = [next EXCEPT
                             !.token_map = MapAppend(@, prefix(token.tag, gather.depth), token)]
    /\ UNCHANGED <<foldVars, stepVars, scatter, comb, loopout, tstep>>

InitScatterGather ==
    /\ UnitInit("Scatter", {"a"})
    /\ \E n \in 0..MaxLists :
          \E items \in [1..n -> UNION {ScatterInputs(k) : k \in 1..n}] :
              /\ \A k \in 1..n : items[k] \in ScatterInputs(k)
              /\ scatter = [input_port |-> items \o <<TerminationToken>>, cursor |-> 0,
                            self |-> NewStep, pc |-> "get"]
    /\ \E d \in 1..MaxDepth :
          gather = [depth |-> d, cursor |-> 0, token_map |-> <<>>,
                    self |-> NewStep, pc |-> "get"]
    /\ comb = NoStep
    /\ loopout = NoStep
    /\ tstep = NoStep

NextScatterGather == ScatterGet \/ GatherGet

SpecScatterGather == InitScatterGather /\ [][NextScatterGather]_vars

----------------------------------------------------------------------------
\* Properties of ScatterStep and GatherStep.

\* the queue of the port between the two steps, and of the GatherStep's output
Scattered == scatter.self.out.out

Gathered == gather.self.out.out

\* the token with tag T.i and the value of the i-th element (from 0) of items
Sub(T, items, i) == Token(T \o <<Dot>> \o str(i), items[i + 1].value)

\* C12: when the ScatterStep reads a ListToken with tag T and n elements, it
\* puts exactly n tokens on its output port before it reads again: the
\* values of the elements in list order, under the tags T.0, T.1, ...,
\* T.(n-1) in that order, and nothing else.
C12_ScatterEmitsInOrder ==
    [][(/\ scatter.pc = "get"
        /\ scatter'.cursor = scatter.cursor + 1
        /\ scatter.input_port[scatter.cursor + 1].type = "ListToken") =>
            LET token == scatter.input_port[scatter.cursor + 1]
                items == token.value.items
            IN Scattered' = Scattered \o
                   [i \in 1..Len(items) |-> Sub(token.tag, items, i - 1)]]_vars

\* a ListToken of two elements was read and the port holds T.0 and T.1
C12_Witness ==
    /\ scatter.pc = "get"
    /\ scatter.cursor = 1
    /\ scatter.input_port[1].type = "ListToken"
    /\ Len(scatter.input_port[1].value.items) = 2
    /\ Len(Scattered) = 2
    /\ Scattered[2].tag = scatter.input_port[1].tag \o <<Dot>> \o str(1)

\* C13: a ListToken with tag T and n >= 1 elements, put alone through the
\* ScatterStep and then the GatherStep with depth 1, comes out as exactly one
\* ListToken with tag T whose value is the elements in their original order,
\* tagged T.0, T.1, ..., T.(n-1); for every n, also with indices of two digits.
C13_RoundTrip ==
    (/\ gather.pc = "done"
     /\ gather.depth = 1
     /\ Len(scatter.input_port) = 2
     /\ scatter.input_port[1].type = "ListToken"
     /\ Len(scatter.input_port[1].value.items) >= 1) =>
        LET token == scatter.input_port[1]
            items == token.value.items
        IN Gathered =
              <<ListToken(token.tag,
                          PyList([i \in 1..Len(items) |-> Sub(token.tag, items, i - 1)])),
                TerminationToken>>

\* the tokens the GatherStep has received before the TerminationToken
Received == [i \in 1..(gather.cursor - 1) |-> Scattered[i]]

Count(seq, x) == Cardinality({i \in 1..Len(seq) : seq[i] = x})

\* the tokens of seq whose prefix at the GatherStep's depth is key
WithPrefix(seq, key) ==
    LET F[i \in 0..Len(seq)] ==
            IF i = 0 THEN <<>>
            ELSE IF prefix(seq[i].tag, gather.depth) = key
                 THEN Append(F[i - 1], seq[i]) ELSE F[i - 1]
    IN F[Len(seq)]

\* C14: the GatherStep puts nothing on its output port before its input port
\* delivers the TerminationToken; on that token it puts exactly one ListToken
\* per distinct prefix drop_last(depth, tag) of the tokens received, holding
\* exactly the tokens received with that prefix (as many times as received),
\* and then terminates, SKIPPED if it put none and COMPLETED otherwise.
C14_GatherOnTermination ==
    /\ gather.pc = "get" => Gathered = <<>> /\ ~gather.self.terminated
    /\ gather.pc = "done" =>
          LET n == Len(Gathered) - 1 IN
          /\ n >= 0
          /\ is_termination(Gathered[n + 1])
          /\ \A i \in 1..n : Gathered[i].type = "ListToken"
          /\ \A i, j \in 1..n : i # j => Gathered[i].tag # Gathered[j].tag
          /\ {Gathered[i].tag : i \in 1..n}
                = {prefix(Received[i].tag, gather.depth) : i \in 1..Len(Received)}
          /\ \A i \in 1..n :
                LET got == Gathered[i].value.items
                    want == WithPrefix(Received, Gathered[i].tag)
                IN /\ Len(got) = Len(want)
                   /\ \A k \in 1..Len(want) : Count(got, want[k]) = Count(want, want[k])
          /\ gather.self.terminated
          /\ gather.self.status = (IF n = 0 THEN "SKIPPED" ELSE "COMPLETED")

\* two lists with different tags were gathered at depth 1 into two ListTokens
C14_Witness ==
    /\ gather.pc = "done"
    /\ gather.depth = 1
    /\ Len(Gathered) = 3
    /\ Len(Gathered[1].value.items) = 2
    /\ gather.self.status = "COMPLETED"

\* the number of segments of a tag, the empty tag having none
Segments(tag) == IF tag = <<>> THEN 0 ELSE Len(split(tag))

\* C15: for every ListToken with tag T the GatherStep of depth d >= 1 emits
\* and every element of its value, the element's tag is T followed by
\* exactly d more segments; for every input tag, also one of d segments or
\* fewer.
C15_ElementsDepthBelow ==
    gather.pc = "done" =>
        \A i \in 1..(Len(Gathered) - 1) :
            \A k \in 1..Len(Gathered[i].value.items) :
                LET tag == Gathered[i].value.items[k].tag
                    T == Gathered[i].tag
                IN /\ Segments(tag) = Segments(T) + gather.depth
                   /\ SubSeq(split(tag), 1, Segments(T)) = (IF T = <<>> THEN <<>> ELSE split(T))

----------------------------------------------------------------------------
\* CombinatorStep.run and LoopCombinatorStep.run.  The variable comb holds
\*   producer       what the producer of each input port puts (see CombStreams)
\*   port, cursor   the queue of each input port and this reader's cursor
\*   input_tasks    port name -> number of get tasks not yet returned by wait
\*   finished       the tasks asyncio.wait returned that the for loop has not
\*                  visited yet, as port name -> token
\*   terminated, checklist, status   the locals and the field of the same
\*                  names (iteration_terminaton_checklist)
\* kind tells which of the two classes the step is, dports its input ports.

\* longest run of data tokens of one iteration
MaxIter == 2

IterationTerminationToken(tag) ==
    [type |-> "IterationTerminationToken", tag |-> tag, value |-> "none"]

\* utils.check_iteration_termination on one token
check_iteration_termination(token) == token.type = "IterationTerminationToken"

\* the prefix of the iteration the producers run
IterPrefix == str(0)

\* tag P.i
SubTag(P, i) == P \o <<Dot>> \o str(i)

\* the data tokens of an iteration of n items
IterData(n) == [i \in 1..n |-> Token(SubTag(IterPrefix, i - 1), PyData(i - 1))]

\* the tags a producer may give the IterationTerminationToken of an iteration
\* of n items: the prefix, prefix.n, or the tag of one of the items
IterEndTags(n) ==
    {IterPrefix, SubTag(IterPrefix, n)} \cup {SubTag(IterPrefix, i) : i \in 0..(n - 1)}

\* what the producers may put on one input port, as [n, end, late]: the n
\* items of an iteration, then its IterationTerminationToken with tag `end`
\* if there is one, then the TerminationToken; with late, the
\* IterationTerminationToken comes after the TerminationToken, and a second
\* TerminationToken follows
CombStreams ==
    UNION {{[n |-> n, end |-> x, late |-> FALSE] : x \in {<<>>} \cup IterEndTags(n)}
              \cup {[n |-> n, end |-> SubTag(IterPrefix, 0), late |-> TRUE]}
           : n \in 0..MaxIter}

CombStream(d) ==
    IF d.end = <<>> THEN IterData(d.n) \o <<TerminationToken>>
    ELSE IF d.late
    THEN IterData(d.n) \o <<TerminationToken, IterationTerminationToken(d.end),
                            TerminationToken>>
    ELSE IterData(d.n) \o <<IterationTerminationToken(d.end), TerminationToken>>

IsLoop == kind = "LoopCombinator"

\* the test before a port is armed again (lines 185 and 632)
rearm_always(c, name) == TRUE

rearm(c, name) ==
    IF IsLoop
    THEN ~(name \in c.terminated /\ c.checklist[name] = {})
    ELSE name \notin c.terminated

\* the branch of the for loop for a task (name, token), up to the call of
\* combine: terminated, checklist and status
Visit(c, name, token) ==
    IF is_termination(token)
    THEN [c EXCEPT !.terminated = @ \cup {name}]
    ELSE IF IsLoop /\ check_iteration_termination(token)
    THEN IF token.tag \in c.checklist[name]
         THEN [c EXCEPT !.checklist[name] = @ \ {token.tag}]
         ELSE c
    ELSE IF IsLoop
    THEN [c EXCEPT !.status = "COMPLETED",
                   !.checklist[name] =
                       IF prefix(token.tag, 1) \notin @ THEN @ \cup {token.tag} ELSE @]
    ELSE [c EXCEPT !.status = "COMPLETED"]

\* combine is called for the tokens that are neither of the two terminations
Combines(token) ==
    ~is_termination(token) /\ ~(IsLoop /\ check_iteration_termination(token))

\* run up to its first wait: one get task per input port, or terminate
CombStart ==
    /\ comb.pc = "start"
    /\ IF dports # {}
       THEN comb' = [comb EXCEPT !.pc = "wait",
                                 !.input_tasks = [q \in dports |-> 1]]
       ELSE comb' = [comb EXCEPT !.pc = "done",
                                 !.self = terminate(@, comb.status)]
    /\ UNCHANGED <<foldVars, stepVars, scatter, gather, loopout, tstep>>

\* asyncio.wait(input_tasks, return_when=FIRST_COMPLETED) returns: some get
\* tasks, at least one, have returned a token
CombWait ==
    /\ comb.pc = "wait"
    /\ \E F \in (SUBSET dports) \ {{}} :
          /\ \A q \in F : comb.input_tasks[q] > 0 /\ comb.cursor[q] < Len(comb.port[q])
          /\ comb' = [comb EXCEPT
                         !.pc = "for",
                         !.finished = [q \in F |-> comb.port[q][comb.cursor[q] + 1]],
                         !.cursor = [q \in dports |-> IF q \in F THEN @[q] + 1 ELSE @[q]],
                         !.input_tasks = [q \in dports |-> IF q \in F THEN @[q] - 1 ELSE @[q]]]
    /\ UNCHANGED <<foldVars, stepVars, scatter, gather, loopout, tstep>>

\* one iteration of `for task in finished`; combine, when called, yields a
\* schema whose token is put on the output port, or raises; after the last task the
\* while test either waits again or leaves the loop and terminates
CombTask ==
    /\ comb.pc = "for"
    /\ \E name \in DOMAIN comb.finished :
       \E outcome \in {"schema", "raise"} :
          LET token == comb.finished[name]
              c1 == Visit(comb, name, token)
              rest == [q \in (DOMAIN comb.finished) \ {name} |-> comb.finished[q]]
          IN /\ outcome = "raise" => Combines(token)
             /\ IF outcome = "raise"
                THEN comb' = [c1 EXCEPT !.pc = "escaped", !.finished = rest]
                ELSE LET c2 == IF Combines(token)
                               THEN [c1 EXCEPT !.self.out.out = Append(@, token)]
                               ELSE c1
                         c3 == [c2 EXCEPT !.finished = rest,
                                          !.input_tasks[name] =
                                              IF rearm(c2, name) THEN @ + 1 ELSE @]
                     IN IF DOMAIN rest # {}
                        THEN comb' = c3
                        ELSE IF \E q \in dports : c3.input_tasks[q] > 0
                        THEN comb' = [c3 EXCEPT !.pc = "wait"]
                        ELSE comb' = [c3 EXCEPT !.pc = "done",
                                                !.self = terminate(@, c3.status)]
    /\ UNCHANGED <<foldVars, stepVars, scatter, gather, loopout, tstep>>

InitCombinator ==
    /\ \E k \in {"Combinator", "LoopCombinator"} :
       \E ports \in {{}, {"a"}, {"a", "b"}} :
          /\ UnitInit(k, ports)
          /\ \E qs \in [ports -> CombStreams] :
                comb = [producer |-> qs, port |-> [q \in ports |-> CombStream(qs[q])],
                        cursor |-> [q \in ports |-> 0],
                        input_tasks |-> [q \in ports |-> 0], finished |-> <<>>,
                        terminated |-> {}, checklist |-> [q \in ports |-> {}],
                        status |-> "SKIPPED",
                        self |-> NewStep, pc |-> "start"]
    /\ scatter = NoStep
    /\ gather = NoStep
    /\ loopout = NoStep
    /\ tstep = NoStep

NextCombinator == CombStart \/ CombWait \/ CombTask

SpecCombinator == InitCombinator /\ [][NextCombinator]_vars

----------------------------------------------------------------------------
\* Properties of CombinatorStep and LoopCombinatorStep.

\* the get tasks of port q that have not been visited by the for loop
Outstanding(q) == comb.input_tasks[q] + (IF q \in DOMAIN comb.finished THEN 1 ELSE 0)

\* the tokens port q has returned to the step
Returned(q) == [i \in 1..comb.cursor[q] |-> comb.port[q][i]]

GotTermination(q) == \E i \in 1..comb.cursor[q] : is_termination(comb.port[q][i])

GotData == \E q \in dports : \E i \in 1..comb.cursor[q] : ~is_termination(comb.port[q][i])

\* C16: in CombinatorStep.run a port that delivered a TerminationToken is
\* never read again (no get task is created for it and its cursor stays on
\* that token), every other port has exactly one outstanding get between
\* two tokens, the step terminates only after every input port delivered its
\* TerminationToken, and the terminal status is SKIPPED if no
\* non-termination token arrived on any port and COMPLETED otherwise.
C16_CombinatorReads ==
    (kind = "Combinator" /\ comb.pc \in {"wait", "for", "done"}) =>
        /\ \A q \in dports :
              /\ \A i \in 1..(comb.cursor[q] - 1) : ~is_termination(comb.port[q][i])
              /\ Outstanding(q) = (IF q \in comb.terminated THEN 0 ELSE 1)
              /\ q \in comb.terminated => GotTermination(q)
              /\ (GotTermination(q) /\ q \notin comb.terminated) => q \in DOMAIN comb.finished
        /\ comb.self.terminated <=> comb.pc = "done"
        /\ comb.pc = "done" =>
              /\ \A q \in dports : q \in comb.terminated
              /\ comb.self.status = (IF GotData THEN "COMPLETED" ELSE "SKIPPED")

\* two ports, one of which delivered data, were read to their TerminationToken
C16_Witness ==
    /\ kind = "Combinator"
    /\ dports = {"a", "b"}
    /\ comb.pc = "done"
    /\ comb.cursor["a"] = 1
    /\ comb.cursor["b"] > 1
    /\ comb.self.status = "COMPLETED"

\* C17: after LoopCombinatorStep.run has processed a regular token with tag
\* P.i from port q, the prefix P is in checklist[q]; and an
\* IterationTerminationToken from q whose tag is in checklist[q] removes
\* that tag.
C17_ChecklistHoldsPrefix ==
    [][(kind = "LoopCombinator" /\ comb.pc = "for") =>
          \A name \in (DOMAIN comb.finished) \ (DOMAIN comb'.finished) :
              LET token == comb.finished[name] IN
              /\ token.type = "Token" =>
                    prefix(token.tag, 1) \in comb'.checklist[name]
              /\ (check_iteration_termination(token) /\ token.tag \in comb.checklist[name]) =>
                    token.tag \notin comb'.checklist[name]]_vars

\* the producer of port q puts the items of its iteration, then the
\* IterationTerminationToken of that iteration (tagged with the prefix, or
\* with prefix.N), then the TerminationToken; or the TerminationToken only
WellFormed(q) ==
    LET d == comb.producer[q]
    IN /\ ~d.late
       /\ IF d.end = <<>> THEN d.n = 0
          ELSE d.end \in {IterPrefix, SubTag(IterPrefix, d.n)}

\* C18: when every input port of a LoopCombinatorStep delivers, for each
\* iteration it carries, the data tokens of the iteration, then its
\* IterationTerminationToken, and at last the TerminationToken, every port
\* becomes fully terminated and the step terminates: once all these tokens
\* were read and processed (no combine having raised), the run has left its
\* loop and terminated the step, every port being terminated with an empty
\* checklist.
C18_LoopCombinatorTerminates ==
    (/\ kind = "LoopCombinator"
     /\ \A q \in dports : WellFormed(q) /\ comb.cursor[q] = Len(comb.port[q])
     /\ DOMAIN comb.finished = {}
     /\ comb.pc \notin {"start", "escaped"}) =>
        /\ comb.pc = "done"
        /\ comb.self.terminated
        /\ \A q \in dports : q \in comb.terminated /\ comb.checklist[q] = {}

----------------------------------------------------------------------------
\* LoopOutputStep.run.  The variable loopout holds
\*   producer       what the producer of the input port puts (see LoopSymbols)
\*   port, cursor   the queue of the input port and this reader's cursor
\*   token_map, size_map, termination_map   the fields of the same names
\*                  (dicts, as functions on their keys)

\* number of tokens the producer puts before the TerminationToken
MaxLoopTokens == 3

\* the prefixes of the iterations: the empty one (tags of one segment) and one
\* of one segment
Prefixes == {<<>>, IterPrefix}

\* the tag prefix.i; '.'.join of the prefix segments and str(i)
TagOf(P, i) == IF P = <<>> THEN str(i) ELSE SubTag(P, i)

\* what the producer may put: a data token of prefix p, or the
\* IterationTerminationToken p.n
LoopSymbols ==
    {[data |-> TRUE, p |-> P, n |-> 0] : P \in Prefixes}
        \cup {[data |-> FALSE, p |-> P, n |-> N] : P \in Prefixes, N \in 0..MaxIter}

\* the tokens of a sequence of symbols: the data tokens of a prefix are
\* numbered in the order they are put
LoopStream(syms) ==
    [i \in 1..Len(syms) |->
        IF syms[i].data
        THEN LET before == Cardinality({j \in 1..(i - 1) :
                                           syms[j].data /\ syms[j].p = syms[i].p})
             IN Token(TagOf(syms[i].p, before), PyData(before))
        ELSE IterationTerminationToken(TagOf(syms[i].p, syms[i].n))]

\* d.get(k, default)
DictGet(d, k, default) == IF k \in DOMAIN d THEN d[k] ELSE default

\* d[k] = v
DictSet(d, k, v) == [x \in (DOMAIN d) \cup {k} |-> IF x = k THEN v ELSE d[x]]

\* all(d) on a dict: every key is truthy, i.e. a non-empty string
all_keys(d) == \A k \in DOMAIN d : k # <<>>

\* all(d.values())
all_values(d) == \A k \in DOMAIN d : d[k]

\* the test that leaves the read loop (line 697)
leaves_loop(termination_map) == termination_map # <<>> /\ all_keys(termination_map)

\* len(self.token_map.get(prefix, [])) == self.size_map.get(prefix, -1)
is_full(l, P) == Len(DictGet(l.token_map, P, <<>>)) = DictGet(l.size_map, P, -1)

\* the branches on the kind of the token (lines 676-690)
Store(l, token) ==
    IF is_termination(token)
    THEN [l EXCEPT !.termination_map =
                       [k \in DOMAIN l.token_map |->
                            Len(l.token_map[k]) = DictGet(l.size_map, k, -1)]]
    ELSE IF check_iteration_termination(token)
    THEN [l EXCEPT !.size_map = DictSet(@, prefix(token.tag, 1), int(last_segment(token.tag)))]
    ELSE [l EXCEPT !.token_map =
                       DictSet(@, prefix(token.tag, 1),
                               Append(DictGet(@, prefix(token.tag, 1), <<>>), token))]

\* one iteration of the loop: the get returns, the token is stored, the
\* aggregate of its prefix is emitted when the prefix is full
\* (_process_output returns the aggregate, or raises), and the loop is left
\* or not.  The tag of a TerminationToken is taken to have the prefix of no
\* iteration, so that nothing is emitted for it.
LoopOutputGet ==
    /\ loopout.pc = "get"
    /\ loopout.cursor < Len(loopout.port)
    /\ \E raises \in BOOLEAN :
          LET token == loopout.port[loopout.cursor + 1]
              l1 == Store([loopout EXCEPT !.cursor = @ + 1], token)
              emits == ~is_termination(token) /\ is_full(l1, prefix(token.tag, 1))
              l2 == IF emits
                    THEN [l1 EXCEPT !.self.out.out =
                              Append(@, Token(prefix(token.tag, 1),
                                              PyList(DictGet(l1.token_map,
                                                             prefix(token.tag, 1), <<>>))))]
                    ELSE l1
          IN /\ raises => emits
             /\ IF raises
                THEN loopout' = [l1 EXCEPT !.pc = "escaped"]
                ELSE IF leaves_loop(l2.termination_map)
                THEN loopout' = [l2 EXCEPT !.pc = "done",
                                           !.self = terminate(@, EmptyStatus(@))]
                ELSE loopout' = l2
    /\ UNCHANGED <<foldVars, stepVars, scatter, gather, comb, tstep>>

InitLoopOutput ==
    /\ UnitInit("LoopOutput", {"a"})
    /\ \E n \in 0..MaxLoopTokens :
          \E syms \in [1..n -> LoopSymbols] :
              loopout = [producer |-> syms,
                         port |-> LoopStream(syms) \o <<TerminationToken>>,
                         cursor |-> 0, token_map |-> <<>>, size_map |-> <<>>,
                         termination_map |-> <<>>, self |-> NewStep, pc |-> "get"]
    /\ scatter = NoStep
    /\ gather = NoStep
    /\ comb = NoStep
    /\ tstep = NoStep

NextLoopOutput == LoopOutputGet

SpecLoopOutput == InitLoopOutput /\ [][NextLoopOutput]_vars

----------------------------------------------------------------------------
\* Properties of LoopOutputStep.

\* the positions of the tokens the step has read
Arrived == 1..loopout.cursor

\* number of data tokens with prefix P that arrived
DataCount(P) ==
    Cardinality({i \in Arrived : /\ loopout.port[i].type = "Token"
                                 /\ prefix(loopout.port[i].tag, 1) = P})

\* the N of the IterationTerminationTokens P.N that arrived
SizesArrived(P) ==
    {int(last_segment(loopout.port[i].tag)) :
        i \in {j \in Arrived : /\ check_iteration_termination(loopout.port[j])
                               /\ prefix(loopout.port[j].tag, 1) = P}}

\* number of aggregates emitted for prefix P
Emitted(P) ==
    Cardinality({i \in 1..Len(loopout.self.out.out) :
                    /\ ~is_termination(loopout.self.out.out[i])
                    /\ loopout.self.out.out[i].tag = P})

\* C19: for every prefix P and every order of arrival, LoopOutputStep emits
\* an aggregate for P if and only if an IterationTerminationToken P.N
\* arrived and exactly N data tokens with prefix P arrived (N of them had
\* arrived when it was emitted), and it emits at most one aggregate per
\* prefix: repeated or late tokens and the TerminationToken cause no second
\* one.  Stated of the runs in which _process_output does not raise.
C19_OneAggregatePerPrefix ==
    (loopout.pc # "escaped") =>
        \A P \in Prefixes :
            /\ Emitted(P) <= 1
            /\ Emitted(P) >= 1 => \E N \in SizesArrived(P) : DataCount(P) >= N
            /\ (\E N \in SizesArrived(P) : DataCount(P) = N) => Emitted(P) >= 1

\* C20: LoopOutputStep leaves its read loop only when termination_map is
\* non-empty and all its values are true, i.e. when at the TerminationToken
\* every known prefix P has len(token_map[P]) == size_map[P]; it does not
\* leave while a known prefix is incomplete.
C20_LeavesOnlyWhenComplete ==
    loopout.pc = "done" =>
        /\ loopout.termination_map # <<>>
        /\ all_values(loopout.termination_map)
        /\ \A P \in DOMAIN loopout.token_map :
              Len(loopout.token_map[P]) = DictGet(loopout.size_map, P, -1)

----------------------------------------------------------------------------
\* ConditionalStep, DeployStep, ScheduleStep, TransferStep and Transformer:
\* the run methods that gather a batch, group it by tag and call their hooks once for
\* each tag-complete tuple.  tstep holds the step object (self), its data input
\* ports (streams, cursor), the locals of run (inputs_map, todo, inputs, left,
\* status), the database counter (next) and the calls made so far (log).

TupleKinds == {"Conditional", "Deploy", "Schedule", "Transfer", "Transformer"}

\* token.persistent_id before any add_token call has returned for the token
None == <<>>

\* a token as the object the step holds: persistent_id is a field of it
Persistent(token, id) ==
    [type |-> token.type, tag |-> token.tag, value |-> token.value, persistent_id |-> id]

\* what the producer of port p puts: the tags of s in order, those of `ends`
\* as IterationTerminationTokens, each token persisted by the producer before
\* its put (identifier <<p, tag>>), then the TerminationToken
TupleStream(p, s, ends) ==
    [i \in 1..(Len(s) + 1) |->
        IF i > Len(s) THEN TerminationToken
        ELSE Persistent(IF <<p, s[i]>> \in ends
                        THEN [type |-> "IterationTerminationToken", tag |-> s[i], value |-> "none"]
                        ELSE Token(s[i], p),
                        <<p, s[i]>>)]

\* utils.check_iteration_termination on the values of a tuple
any_iteration_termination(inputs) ==
    \E n \in DOMAIN inputs : check_iteration_termination(inputs[n])

\* the output ports registered on a step of kind k with data input ports `ports`
OutputsOf(k, ports) ==
    CASE k = "Conditional" -> {"out"}
      [] k = "Deploy" -> {"deployment"}
      [] k = "Schedule" -> {"__job__"}
      [] k = "Transfer" -> ports
      [] OTHER -> {"a", "b"}

\* the tag of a tuple (NoTag for the empty tuple)
TupleTag(inputs) ==
    IF DOMAIN inputs = {} THEN NoTag ELSE inputs[CHOOSE n \in DOMAIN inputs : TRUE].tag

\* self.name, as a path: the sequence of its segments
StepName == <<"step">>

\* posixpath.join(path, port_name) for a relative port name
posixpath_join(path, port_name) == Append(path, port_name)

Call(u, fn, arg) == [u EXCEPT !.log = Append(@, [op |-> "call", fn |-> fn, arg |-> arg])]

Return(u, fn, value) == [u EXCEPT !.log = Append(@, [op |-> "return", fn |-> fn, value |-> value])]

Raise(u, fn, exc) == [u EXCEPT !.log = Append(@, [op |-> "raise", fn |-> fn, exc |-> exc])]

\* _persist_token on the token object `token`, with `inputs` the dict whose
\* values are passed as inputs: add_token assigns the identifier, and
\* add_provenance, called when inputs is not empty, reads the identifier each
\* input object has at that time
_persist_token(u, token, port, inputs) ==
    LET id == <<"db", u.next>>
        t == [token EXCEPT !.persistent_id = id]
        ins == [n \in DOMAIN inputs |-> IF inputs[n] = token THEN t ELSE inputs[n]]
        added == Append(u.log, [op |-> "add_token", port |-> port, token |-> id])
    IN [token |-> t,
        inputs |-> ins,
        next |-> u.next + 1,
        log |-> IF DOMAIN ins # {}
                THEN Append(added, [op |-> "add_provenance",
                                    inputs |-> {ins[n].persistent_id : n \in DOMAIN ins},
                                    token |-> id])
                ELSE added]

\* Port.put(token) on the output port `port`
Put(u, port, token) ==
    [u EXCEPT !.self.out[port] = Append(@, token),
              !.log = Append(@, [op |-> "put", port |-> port, token |-> token])]

\* for port_name, token in tokens.items(): put(_persist_token(token, port, inputs))
RECURSIVE put_all(_, _, _, _)
put_all(u, names, tokens, inputs) ==
    IF names = <<>> THEN [u EXCEPT !.inputs = inputs]
    ELSE IF Head(names) \notin DOMAIN tokens THEN put_all(u, Tail(names), tokens, inputs)
    ELSE LET name == Head(names)
             p == _persist_token(u, tokens[name], name, inputs)
         IN put_all(Put([u EXCEPT !.next = p.next, !.log = p.log], name, p.token),
                    Tail(names), tokens, p.inputs)

\* the terminate calls that end run
TupleFinish(u, sts) ==
    [u EXCEPT !.self = terminate_all(u.self, sts),
              !.log = @ \o [i \in 1..Len(sts) |-> [op |-> "terminate", status |-> sts[i]]],
              !.pc = "done"]

\* the status of the terminate call that ends a normal run
TupleFinal(u) ==
    CASE u.kind \in {"Conditional", "Deploy"} -> "COMPLETED"
      [] u.kind = "Schedule" ->
            IF empty(u.self.out["__job__"]) THEN "SKIPPED" ELSE "COMPLETED"
      [] u.kind = "Transfer" -> u.status
      [] OTHER ->
            IF \E o \in DOMAIN u.self.out : empty(u.self.out[o]) THEN "SKIPPED" ELSE "COMPLETED"

\* the except clauses around the loop; TransferStep goes on to its trailing
\* terminate(status)
Caught(u, exc) ==
    IF exc = "KeyboardInterrupt"
    THEN [u EXCEPT !.pc = "escaped", !.error = exc]
    ELSE TupleFinish([u EXCEPT !.error = exc],
                     <<IF exc = "CancelledError" THEN "CANCELLED" ELSE "FAILED">>
                     \o (IF u.kind = "Transfer" THEN <<u.status>> ELSE <<>>))

\* the body of the loop on the tuple `inputs`, up to its first await.
\* DeployStep drops the tuple it pops: its local `inputs` stays the batch.
Body(u, inputs) ==
    LET v == [u EXCEPT !.inputs = inputs] IN
    CASE u.kind = "Conditional" -> [Call(v, "eval", inputs) EXCEPT !.pc = "eval"]
      [] u.kind = "Deploy" -> [Call(u, "deploy", "deployment_config") EXCEPT !.pc = "deploy"]
      [] u.kind = "Schedule" -> [Call(v, "schedule", inputs) EXCEPT !.pc = "schedule"]
      [] u.kind = "Transfer" -> [Call(v, "get_job", StepName) EXCEPT !.pc = "get_job"]
      [] OTHER -> [Call(v, "transform", inputs) EXCEPT !.pc = "transform"]

\* a loop that calls the hook on every tuple, iteration end or not
NextTuple_transformAll(u) ==
    IF u.todo = <<>> THEN [u EXCEPT !.pc = "get"]
    ELSE Body([u EXCEPT !.todo = Tail(@)], Head(u.todo).toks)

\* for tag in list(inputs_map.keys()): the complete tuples still to visit are
\* u.todo; an IterationTerminationToken makes the Transformer propagate the
\* tuple with no await and go on with the next one
RECURSIVE NextTuple(_)
NextTuple(u) ==
    IF u.todo = <<>> THEN [u EXCEPT !.pc = "get"]
    ELSE LET inputs == Head(u.todo).toks
             v == [u EXCEPT !.todo = Tail(@)]
         IN IF u.kind = "Transformer" /\ any_iteration_termination(inputs)
            THEN NextTuple(put_all(v, PortOrder, inputs, inputs))
            ELSE Body(v, inputs)

\* the body has ended: the next tuple, or the end of run when the body ran
\* once on the empty tuple
Continue(u) ==
    IF dports = {} THEN TupleFinish(u, <<TupleFinal(u)>>) ELSE NextTuple(u)

\* the branch on the input ports
Enter(u) ==
    IF dports # {} THEN [u EXCEPT !.pc = "get"]
    ELSE IF u.kind = "Transfer" THEN TupleFinish(u, <<u.status>>)
    ELSE Body(u, <<>>)

TupleFrame == UNCHANGED <<foldVars, stepVars, scatter, gather, comb, loopout>>

\* from the call of run to its first await
TupleStart ==
    /\ tstep.pc = "start"
    /\ tstep' = IF tstep.kind = "Schedule"
                THEN [Call(tstep, "get_connector", StepName) EXCEPT !.pc = "connector"]
                ELSE Enter(tstep)
    /\ TupleFrame

\* ScheduleStep: get_connector returns
TupleConnector ==
    /\ tstep.pc = "connector"
    /\ tstep' = Enter(Return(tstep, "get_connector", "connector"))
    /\ TupleFrame

\* _get_inputs returns a batch: break on termination, else group and visit
\* the complete tags
TupleGetInputs ==
    /\ tstep.pc = "get"
    /\ \A p \in dports : tstep.cursor[p] < Len(tstep.streams[p])
    /\ LET inputs == [p \in dports |-> tstep.streams[p][tstep.cursor[p] + 1]]
           u == [tstep EXCEPT !.cursor = [p \in dports |-> @[p] + 1],
                              !.inputs = inputs]
       IN IF check_termination(inputs)
          THEN tstep' = TupleFinish(u, <<TupleFinal(u)>>)
          ELSE LET m == _group_by_tag(PortOrder, inputs, u.inputs_map) IN
               tstep' = NextTuple([u EXCEPT !.inputs_map = IncompleteItems(m),
                                            !.todo = CompleteItems(m),
                                            !.grouped = @ \o [i \in 1..Len(CompleteItems(m)) |->
                                                                 CompleteItems(m)[i].toks]])
    /\ TupleFrame

\* a ConditionalStep that takes the other branch
TupleEval_inverted ==
    /\ tstep.pc = "eval"
    /\ \E value \in BOOLEAN :
          tstep' = [Call(Return(tstep, "eval", value),
                         IF value THEN "on_false" ELSE "on_true", tstep.inputs)
                    EXCEPT !.pc = IF value THEN "on_false" ELSE "on_true"]
    /\ TupleFrame

\* ConditionalStep: _eval returns; _on_true or _on_false is called
TupleEval ==
    /\ tstep.pc = "eval"
    /\ \E value \in BOOLEAN :
          tstep' = [Call(Return(tstep, "eval", value),
                         IF value THEN "on_true" ELSE "on_false", tstep.inputs)
                    EXCEPT !.pc = IF value THEN "on_true" ELSE "on_false"]
    /\ TupleFrame

\* ConditionalStep: _on_true or _on_false returns
TupleBranch ==
    /\ tstep.pc \in {"on_true", "on_false"}
    /\ tstep' = Continue(Return(tstep, tstep.pc, "none"))
    /\ TupleFrame

\* Transformer: transform returns a token for some output ports; each is
\* persisted and put
TupleTransform ==
    /\ tstep.pc = "transform"
    /\ \E names \in SUBSET DOMAIN tstep.self.out :
          LET outputs == [n \in names |->
                            Persistent(Token(TupleTag(tstep.inputs), "out"), None)]
          IN tstep' = Continue(put_all(Return(tstep, "transform", names),
                                       PortOrder, outputs, tstep.inputs))
    /\ TupleFrame

\* TransferStep: get_job returns a job, or None; with a job status becomes
\* COMPLETED and the first token is transferred
TupleGetJob ==
    /\ tstep.pc = "get_job"
    /\ \E job \in {"job", "None"} :
          IF job = "None"
          THEN tstep' = Caught(Return(tstep, "get_job", job), "WorkflowExecutionException")
          ELSE LET names == SelectSeq(PortOrder, LAMBDA n : n \in DOMAIN tstep.inputs) IN
               tstep' = [Call(Return(tstep, "get_job", job), "transfer", Head(names))
                         EXCEPT !.status = "COMPLETED", !.left = names, !.pc = "transfer"]
    /\ TupleFrame

\* TransferStep: transfer returns the token to put on the port of the same
\* name; the next token of the tuple is transferred, or the body ends
TupleTransfer ==
    /\ tstep.pc = "transfer"
    /\ LET name == Head(tstep.left)
           token == Persistent(Token(tstep.inputs[name].tag, "out"), None)
           p == _persist_token(Return(tstep, "transfer", name), token, name, tstep.inputs)
           u == Put([tstep EXCEPT !.next = p.next, !.log = p.log, !.left = Tail(@)],
                    name, p.token)
       IN tstep' = IF u.left = <<>> THEN Continue(u)
                   ELSE Call(u, "transfer", Head(u.left))
    /\ TupleFrame

\* a ScheduleStep that puts the JobToken before creating the directories
TupleSchedule_putFirst ==
    /\ tstep.pc = "schedule"
    /\ LET token == Persistent([type |-> "JobToken", tag |-> TupleTag(tstep.inputs),
                                value |-> "job"], None)
           u == Return(Call(Return(tstep, "schedule", "none"),
                            "get_locations", tstep.inputs),
                       "get_locations", "locations")
           p == _persist_token(u, token, "__job__", tstep.inputs)
       IN tstep' = [Call(Put([u EXCEPT !.next = p.next, !.log = p.log], "__job__", p.token),
                         "mkdirs", tstep.inputs)
                    EXCEPT !.pc = "mkdirs"]
    /\ TupleFrame

\* ScheduleStep: scheduler.schedule returns; get_locations is called and
\* returns, and _propagate_job awaits remotepath.mkdirs
TupleSchedule ==
    /\ tstep.pc = "schedule"
    /\ tstep' = [Call(Return(Call(Return(tstep, "schedule", "none"),
                                  "get_locations", tstep.inputs),
                             "get_locations", "locations"),
                      "mkdirs", tstep.inputs)
                 EXCEPT !.pc = "mkdirs"]
    /\ TupleFrame

\* ScheduleStep: mkdirs returns; the JobToken is persisted and put
TupleMkdirs ==
    /\ tstep.pc = "mkdirs"
    /\ LET token == Persistent([type |-> "JobToken", tag |-> TupleTag(tstep.inputs),
                                value |-> "job"], None)
           u == Return(tstep, "mkdirs", "none")
           p == _persist_token(u, token, "__job__", tstep.inputs)
       IN tstep' = Continue(Put([u EXCEPT !.next = p.next, !.log = p.log],
                                "__job__", p.token))
    /\ TupleFrame

\* DeployStep: deploy returns; a Token with the default tag is persisted with
\* the values of `inputs` as its inputs, and put
TupleDeploy ==
    /\ tstep.pc = "deploy"
    /\ LET token == Persistent(Token(0, "deployment"), None)
           u == Return(tstep, "deploy", "none")
           p == _persist_token(u, token, "deployment", tstep.inputs)
       IN tstep' = Continue(Put([u EXCEPT !.next = p.next, !.log = p.log],
                                "deployment", p.token))
    /\ TupleFrame

\* the awaits of run
TupleAwaits ==
    {"connector", "get", "eval", "on_true", "on_false", "transform", "get_job",
     "transfer", "schedule", "mkdirs", "deploy"}

\* the awaited hook or collaborator raises
TupleRaise ==
    /\ tstep.pc \in TupleAwaits \ {"get", "get_job"}
    /\ \E exc \in {"WorkflowException", "Exception", "KeyboardInterrupt"} :
          tstep' = Caught(Raise(tstep, tstep.pc, exc), exc)
    /\ TupleFrame

\* the task running run is cancelled at the await it is suspended on
TupleCancel ==
    /\ tstep.pc \in TupleAwaits
    /\ tstep' = Caught(Raise(tstep, tstep.pc, "CancelledError"), "CancelledError")
    /\ TupleFrame

InitTupleSteps ==
    /\ \E k \in TupleKinds, ports \in {{}, {"a"}, {"a", "b"}} :
          /\ UnitInit(k, ports)
          /\ \E ts \in [ports -> TagSeqs],
                ends \in (IF k = "Transformer" THEN SUBSET (ports \X Tags) ELSE {{}}) :
                /\ "a" \in ports => ts["a"] \in AscendingSeqs
                /\ \A e \in ends : \E i \in 1..Len(ts[e[1]]) : ts[e[1]][i] = e[2]
                /\ tstep = [kind |-> k,
                            streams |-> [p \in ports |-> TupleStream(p, ts[p], ends)],
                            cursor |-> [p \in ports |-> 0],
                            self |-> [status |-> "WAITING", terminated |-> FALSE,
                                      closed |-> {},
                                      out |-> [o \in OutputsOf(k, ports) |-> <<>>]],
                            inputs_map |-> <<>>,
                            todo |-> <<>>,
                            inputs |-> <<>>,
                            left |-> <<>>,
                            status |-> "SKIPPED",
                            grouped |-> <<>>,
                            next |-> 1,
                            log |-> <<>>,
                            error |-> "none",
                            pc |-> "start"]
    /\ scatter = NoStep
    /\ gather = NoStep
    /\ comb = NoStep
    /\ loopout = NoStep

NextTupleSteps ==
    \/ TupleStart
    \/ TupleConnector
    \/ TupleGetInputs
    \/ TupleEval
    \/ TupleBranch
    \/ TupleTransform
    \/ TupleGetJob
    \/ TupleTransfer
    \/ TupleSchedule
    \/ TupleMkdirs
    \/ TupleDeploy
    \/ TupleRaise
    \/ TupleCancel

SpecTupleSteps == InitTupleSteps /\ [][NextTupleSteps]_vars

----------------------------------------------------------------------------
\* Properties of the hook calls (under SpecTupleSteps).

\* event i of the log is a call of fn
IsCall(i, fn) == tstep.log[i].op = "call" /\ tstep.log[i].fn = fn

IsReturn(i, fn) == tstep.log[i].op = "return" /\ tstep.log[i].fn = fn

\* the indexes of the calls of fn, and those made on the tuple `arg`
Calls(fn) == {i \in 1..Len(tstep.log) : IsCall(i, fn)}

CallsOn(fn, arg) == {i \in Calls(fn) : tstep.log[i].arg = arg}

\* the tuples the loop has to visit: those the grouping completed, or the
\* empty tuple once the branch on the input ports is taken with no port
Tuples ==
    IF dports # {} THEN {tstep.grouped[i] : i \in 1..Len(tstep.grouped)}
    ELSE IF tstep.pc = "start" THEN {}
    ELSE IF tstep.kind = "Schedule" /\ \A i \in 1..Len(tstep.log) : ~IsReturn(i, "get_connector")
    THEN {}
    ELSE {<<>>}

\* the tuples still waiting in the for loop
Waiting == {tstep.todo[i].toks : i \in 1..Len(tstep.todo)}

RanToCompletion == tstep.pc = "done" /\ tstep.error = "none"

\* C21: a ConditionalStep calls _eval exactly once on each tag-complete tuple
\* (once on the empty tuple when it has no input port) and on nothing else;
\* each _eval that returned is followed by exactly one call, _on_true when it
\* returned true and _on_false when it returned false, on the same tuple, and
\* no other branch call is made; a run in which no hook raised and that was
\* not cancelled ends COMPLETED.
C21_EvalThenOneBranch ==
    tstep.kind = "Conditional" =>
        /\ \A i \in Calls("eval") :
              /\ tstep.log[i].arg \in Tuples
              /\ Cardinality(CallsOn("eval", tstep.log[i].arg)) = 1
        /\ \A t \in Tuples \ Waiting : Cardinality(CallsOn("eval", t)) = 1
        /\ \A i \in 1..Len(tstep.log) :
              IsReturn(i, "eval") =>
                 /\ IsCall(i - 1, "eval")
                 /\ i < Len(tstep.log)
                 /\ IsCall(i + 1, IF tstep.log[i].value THEN "on_true" ELSE "on_false")
                 /\ tstep.log[i + 1].arg = tstep.log[i - 1].arg
        /\ \A i \in Calls("on_true") \cup Calls("on_false") :
              i > 2 /\ IsReturn(i - 1, "eval")
        /\ RanToCompletion => tstep.self.status = "COMPLETED"

C21_Witness ==
    /\ tstep.kind = "Conditional"
    /\ dports = {"a", "b"}
    /\ RanToCompletion
    /\ Len(tstep.grouped) = 2
    /\ Calls("on_true") # {}
    /\ Calls("on_false") # {}
    /\ tstep.self.status = "COMPLETED"

\* the puts on port n of a token with the type, tag and value of `token`
PutsOf(n, token) ==
    {i \in 1..Len(tstep.log) :
        /\ tstep.log[i].op = "put"
        /\ tstep.log[i].port = n
        /\ tstep.log[i].token.type = token.type
        /\ tstep.log[i].token.tag = token.tag
        /\ tstep.log[i].token.value = token.value}

\* the puts made after event i with no call or return in between
PutsAfter(i) ==
    {j \in (i + 1)..Len(tstep.log) :
        /\ tstep.log[j].op = "put"
        /\ \A k \in (i + 1)..j : tstep.log[k].op \in {"add_token", "add_provenance", "put"}}

\* C22: a Transformer never calls transform on a tag-complete tuple that holds
\* an IterationTerminationToken, and puts each token of such a tuple once on
\* the output port of the same name with its type, tag and value; on every
\* other tag-complete tuple it calls transform exactly once, and puts each
\* output transform returned on the output port of the same name.
C22_TransformerPassThrough ==
    tstep.kind = "Transformer" =>
        /\ \A t \in Tuples \ Waiting :
              IF any_iteration_termination(t)
              THEN /\ CallsOn("transform", t) = {}
                   /\ \A n \in DOMAIN t : Cardinality(PutsOf(n, t[n])) = 1
              ELSE Cardinality(CallsOn("transform", t)) = 1
        /\ \A i \in Calls("transform") : tstep.log[i].arg \in Tuples
        /\ \A i \in 1..Len(tstep.log) :
              IsReturn(i, "transform") =>
                 /\ IsCall(i - 1, "transform")
                 /\ \A n \in tstep.log[i].value :
                       Cardinality({j \in PutsAfter(i) :
                                       /\ tstep.log[j].port = n
                                       /\ tstep.log[j].token.value = "out"}) = 1
                 /\ \A j \in PutsAfter(i) :
                       tstep.log[j].token.value = "out" =>
                          tstep.log[j].port \in tstep.log[i].value

C22_Witness ==
    /\ tstep.kind = "Transformer"
    /\ dports = {"a", "b"}
    /\ RanToCompletion
    /\ \E t \in Tuples : any_iteration_termination(t)
    /\ \E i \in 1..Len(tstep.log) :
          IsReturn(i, "transform") /\ tstep.log[i].value = {"a", "b"}

\* the statuses of the terminate calls made, in call order
Terminations ==
    SelectSeq(tstep.log, LAMBDA e : e.op = "terminate")

\* C23: a TransferStep whose run met no error and no cancellation ends
\* COMPLETED when at least one transfer was made and SKIPPED otherwise (also
\* with no data input port); after an error or a null job it is FAILED and
\* after a cancellation CANCELLED, and the terminate(status) call that follows
\* the handler leaves that status in place.
C23_TransferStatus ==
    (tstep.kind = "Transfer" /\ tstep.pc = "done") =>
        /\ tstep.error = "none" =>
              /\ tstep.self.status = IF Calls("transfer") # {} THEN "COMPLETED" ELSE "SKIPPED"
              /\ Len(Terminations) = 1
        /\ tstep.error = "CancelledError" =>
              /\ tstep.self.status = "CANCELLED"
              /\ Len(Terminations) = 2
              /\ Terminations[1].status = "CANCELLED"
        /\ tstep.error \notin {"none", "CancelledError"} =>
              /\ tstep.self.status = "FAILED"
              /\ Len(Terminations) = 2
              /\ Terminations[1].status = "FAILED"
        /\ \A o \in DOMAIN tstep.self.out : TermCount(tstep.self.out[o]) = 1

C23_Witness ==
    /\ tstep.kind = "Transfer"
    /\ tstep.pc = "done"
    /\ tstep.error = "Exception"
    /\ Calls("transfer") # {}
    /\ Len(Terminations) = 2
    /\ Terminations[2].status = "COMPLETED"
    /\ tstep.self.status = "FAILED"

\* the events of one job: from its schedule call, event i, up to the next
\* schedule call
JobEvents(i) ==
    {j \in i..Len(tstep.log) : \A k \in (i + 1)..j : ~IsCall(k, "schedule")}

\* the JobTokens put, as indexes of the log
JobTokenPuts ==
    {i \in 1..Len(tstep.log) :
        tstep.log[i].op = "put" /\ tstep.log[i].port = "__job__"
        /\ tstep.log[i].token.type = "JobToken"}

\* C28: a ScheduleStep calls scheduler.schedule exactly once for each
\* tag-complete tuple of its data input ports (once with the empty tuple when
\* it has none; __connector__ is not one of them); the events of a job come in
\* the order schedule called and returned, get_locations, mkdirs called and
\* returned, put of one JobToken on __job__; a JobToken is put only after the
\* schedule and the mkdirs of its job have returned; the TerminationToken on
\* __job__ comes after every JobToken.
C28_ScheduleOrder ==
    tstep.kind = "Schedule" =>
        /\ \A t \in Tuples \ Waiting : Cardinality(CallsOn("schedule", t)) = 1
        /\ \A i \in Calls("schedule") :
              /\ tstep.log[i].arg \in Tuples
              /\ \A n \in DOMAIN tstep.log[i].arg : n # "__connector__"
        /\ \A i \in 1..Len(tstep.log) :
              /\ IsReturn(i, "schedule") =>
                    /\ IsCall(i - 1, "schedule")
                    /\ IsCall(i + 1, "get_locations")
                    /\ IsReturn(i + 2, "get_locations")
                    /\ IsCall(i + 3, "mkdirs")
                    /\ tstep.log[i + 1].arg = tstep.log[i - 1].arg
                    /\ tstep.log[i + 3].arg = tstep.log[i - 1].arg
              /\ IsCall(i, "get_locations") => IsReturn(i - 1, "schedule")
              /\ IsCall(i, "mkdirs") => IsReturn(i - 1, "get_locations")
              /\ IsReturn(i, "mkdirs") =>
                    /\ IsCall(i - 1, "mkdirs")
                    /\ i + 3 <= Len(tstep.log)
                    /\ tstep.log[i + 1].op = "add_token"
                    /\ i + 3 \in JobTokenPuts \/ i + 2 \in JobTokenPuts
        /\ \A i \in JobTokenPuts :
              \E j \in 1..(i - 1) :
                 /\ IsReturn(j, "mkdirs")
                 /\ IsReturn(j - 4, "schedule")
                 /\ JobTokenPuts \cap JobEvents(j - 5) = {i}
        /\ Cardinality(JobTokenPuts) = Cardinality({i \in 1..Len(tstep.log) : IsReturn(i, "mkdirs")})
        /\ LET q == tstep.self.out["__job__"] IN
           \A i, j \in 1..Len(q) :
              (is_termination(q[i]) /\ ~is_termination(q[j])) => j < i

C28_Witness ==
    /\ tstep.kind = "Schedule"
    /\ dports = {"a", "b"}
    /\ RanToCompletion
    /\ Cardinality(JobTokenPuts) = 2
    /\ Len(tstep.self.out["__job__"]) = 3

----------------------------------------------------------------------------
\* Properties of the job tasks of ExecuteStep (under Spec).

Running == [name |-> "step", status |-> "RUNNING"]

\* the notifications of the final status made by job task j
Finals(j) == {i \in 1..Len(jobs[j].notified) : jobs[j].notified[i].name = "job"}

\* command.execute has been called by job task j
Executed(j) ==
    jobs[j].pc \in {"execute", "handle_failure", "handle_exception"} \/ jobs[j].value # "none"

\* C24: a job task that obtained a job descriptor notifies RUNNING before it
\* calls command.execute, notifies the final status exactly once by the time
\* it is over, on every path, and puts no output token before that
\* notification.
C24_NotifiedAroundExecution ==
    \A j \in 1..Len(jobs) :
        jobs[j].name # "none" =>
            /\ Executed(j) => (jobs[j].notified # <<>> /\ jobs[j].notified[1] = Running)
            /\ Cardinality(Finals(j)) <= 1
            /\ JobDone(j) => Cardinality(Finals(j)) = 1
            /\ jobs[j].pc = "outputs" => Finals(j) # {}
            /\ jobs[j].emitted # {} => Finals(j) # {}

\* the step has default output processors and one job task, and its run is
\* not cancelled
SingleJob ==
    /\ kind = "Execute"
    /\ step.output_processors = "default"
    /\ Len(jobs) = 1
    /\ ~cancelled

\* the token a default processor makes of the output handle_failure returned
Recovered == Token(jobs[1].tag, "handle_failure")

\* the command returned FAILED and handle_failure returned a COMPLETED output
RecoveredOutput(job) == job.value = "handle_failure" /\ job.status = "COMPLETED"

\* C25: in an ExecuteStep with default output processors and a single job
\* task, when the command returns FAILED and handle_failure returns a
\* COMPLETED output, the step is not terminated, the final notification is
\* followed by the output processors, which put on each output port the token
\* that holds the recovered value; at the end of run each output port holds
\* that token followed by exactly one TerminationToken and the step is
\* COMPLETED.
C25_RecoveredOutputEmitted ==
    /\ [][(SingleJob /\ ~cancelled' /\ Len(jobs') = 1) =>
            /\ (jobs[1].pc = "notify_final" /\ RecoveredOutput(jobs[1]) /\ jobs' # jobs) =>
                  (~step.terminated /\ jobs'[1].pc = "outputs" /\ RecoveredOutput(jobs'[1]))
            /\ (jobs[1].pc = "outputs" /\ RecoveredOutput(jobs[1]) /\ jobs' # jobs) =>
                  /\ jobs'[1].pc = "returned"
                  /\ jobs'[1].status = "COMPLETED"
                  /\ step'.out = [o \in K.outputs |-> <<Recovered>>]]_vars
    /\ [](SingleJob /\ pc = "done" /\ jobs[1].status = "COMPLETED"
              /\ (\E o \in K.outputs : step.out[o] # <<>> /\ step.out[o][1] = Recovered)
            => /\ \A o \in K.outputs : step.out[o] = <<Recovered, TerminationToken>>
               /\ step.status = "COMPLETED")

C25_Witness ==
    /\ SingleJob
    /\ pc = "done"
    /\ dports = {"a"}
    /\ step.out = [o \in K.outputs |-> <<Recovered, TerminationToken>>]
    /\ jobs[1].notified = <<Running, [name |-> "job", status |-> "COMPLETED"]>>
    /\ step.status = "COMPLETED"

\* a job task has terminated the step as FAILED: a terminate(FAILED) call
\* other than the one that ends run
Declined ==
    \E i \in 1..(Len(termCalls) - (IF pc = "done" THEN 1 ELSE 0)) : termCalls[i] = "FAILED"

\* C26: in an ExecuteStep whose run is not cancelled, once a job task has
\* terminated the step because the failure manager declined recovery, the
\* step is terminated with status FAILED and stays so; a job task that is
\* FAILED when the step is terminated puts no output token.
C26_DeclinedStaysFailed ==
    (kind = "Execute" /\ ~cancelled /\ Declined) =>
        /\ step.terminated
        /\ step.status = "FAILED"
        /\ \A j \in 1..Len(jobs) :
              (jobs[j].pc = "notify_final" /\ jobs[j].status = "FAILED"
                 /\ jobs[j].value = "none") => jobs[j].emitted = {}

\* the run was cancelled with two job tasks, each suspended on
\* command.execute
TwoExecuting ==
    /\ kind = "Execute" /\ cancelled
    /\ Len(jobs) = 2
    /\ \A j \in 1..Len(jobs) : jobs[j].executing

CancelledOutcome ==
    /\ \A j \in 1..Len(jobs) :
          /\ \E i \in Finals(j) : jobs[j].notified[i].status = "CANCELLED"
          /\ jobs[j].emitted = {}
    /\ step.status = "CANCELLED"
    /\ step.closed = {}
    /\ \A o \in DOMAIN step.out : step.out[o] = <<TerminationToken>>

\* C27: when the run of an ExecuteStep is cancelled while its two job tasks
\* are executing their command, then by the time the tasks are over both have
\* notified CANCELLED and put no token, the step is CANCELLED, no input port
\* is closed and each output port holds exactly one TerminationToken.
C27_CancelMidFlight == (TwoExecuting /\ RunOver) => CancelledOutcome

\* C30: on every output port of a step, no data token comes after the
\* TerminationToken.
C30_TerminationTokenLast ==
    \A o \in DOMAIN step.out :
        \A i, j \in 1..Len(step.out[o]) :
            (is_termination(step.out[o][i]) /\ i < j) => is_termination(step.out[o][j])

----------------------------------------------------------------------------
\* Properties of the persistence calls (under SpecTupleSteps).

\* the identifiers the producers' add_token calls assigned to the input tokens
Upstream ==
    UNION {{tstep.streams[p][k].persistent_id : k \in 1..(Len(tstep.streams[p]) - 1)} :
              p \in DOMAIN tstep.streams}

\* an add_token call before event i returned the identifier id
AddedBefore(id, i) ==
    \E k \in 1..(i - 1) : tstep.log[k].op = "add_token" /\ tstep.log[k].token = id

\* C29: every token put on an output port bears an identifier returned by an
\* earlier add_token call, and every identifier passed to add_provenance as an
\* input of a token was assigned by an add_token call made before the
\* add_token call of that token.
C29_ProvenanceAfterPersist ==
    \A i \in 1..Len(tstep.log) :
        /\ tstep.log[i].op = "put" => AddedBefore(tstep.log[i].token.persistent_id, i)
        /\ tstep.log[i].op = "add_provenance" =>
              /\ tstep.log[i - 1].op = "add_token"
              /\ tstep.log[i - 1].token = tstep.log[i].token
              /\ \A id \in tstep.log[i].inputs : id \in Upstream \/ AddedBefore(id, i - 1)

----------------------------------------------------------------------------
\* Reader identities.  A port keeps one cursor and one end-of-stream mark for
\* each consumer string it is called with.

\* JobPort.get_job(consumer) and ConnectorPort.get_connector(consumer) read
\* their port as Port.get(consumer)
get_as(consumer) == consumer

\* the Port.get calls the step has issued, as <<port name, consumer>>: those
\* of _get_inputs on its data ports, and those made through get_job and
\* get_connector on the reserved ports
Gets ==
    {<<p, posixpath_join(StepName, p)>> : p \in {q \in dports : tstep.pc = "get" \/ tstep.cursor[q] > 0}}
    \cup {<<"__job__", get_as(tstep.log[i].arg)>> : i \in Calls("get_job")}
    \cup {<<"__connector__", get_as(tstep.log[i].arg)>> : i \in Calls("get_connector")}

\* the Port.close calls terminate has made, as <<port name, consumer>>
Closes == {<<p, posixpath_join(StepName, p)>> : p \in tstep.self.closed}

\* C31: an input port that terminate has closed was closed for the consumer
\* under which the step read it: no port was read under one identity and
\* closed under another.
C31_ReaderIdentity ==
    \A g \in Gets, c \in Closes : g[1] = c[1] => g[2] = c[2]

----------------------------------------------------------------------------
\* The status a job task reports.

\* job task j has returned its status to the gather of run
JobReturned(j) == jobs[j].pc = "returned" /\ jobs[j].name # "none"

\* C32: a job task of an ExecuteStep that obtained a job descriptor and has
\* returned, returned the status it notified to the scheduler as final.
C32_NotifiedIsReturned ==
    kind = "Execute" =>
        \A j \in 1..Len(jobs) :
            JobReturned(j) =>
                /\ Finals(j) # {}
                /\ \A i \in Finals(j) : jobs[j].notified[i].status = jobs[j].status

----------------------------------------------------------------------------
\* Provenance of the tokens emitted for a tuple.

\* the add_provenance calls made so far
ProvenanceCalls ==
    {i \in 1..Len(tstep.log) : tstep.log[i].op = "add_provenance"}

\* the identifiers of the tokens of a tuple, as its producers persisted them
IdsOf(toks) == {<<n, toks[n].tag>> : n \in DOMAIN toks}

\* the tag-complete tuples for which the token of add_provenance call i was
\* emitted: the tuple that has the tag of the token; a DeployStep emits one
\* token (with the default tag) for each tuple, in the order of the tuples
TriggeringTuples(i) ==
    IF tstep.kind = "Deploy"
    THEN {k \in 1..Len(tstep.grouped) :
             k = Cardinality({j \in ProvenanceCalls : j <= i})}
    ELSE {k \in 1..Len(tstep.grouped) :
             TupleTag(tstep.grouped[k]) = tstep.log[i + 1].token.tag}

\* C33: the inputs recorded as the provenance of a token emitted for a
\* tag-complete tuple are exactly the tokens of that tuple, whether it was
\* completed by one batch or by several, and never the emitted token itself.
C33_ProvenanceOfTuple ==
    \A i \in ProvenanceCalls :
        /\ tstep.log[i].token \notin tstep.log[i].inputs
        /\ \E k \in TriggeringTuples(i) :
              tstep.log[i].inputs = IdsOf(tstep.grouped[k])

----------------------------------------------------------------------------
\* Termination of LoopOutputStep.

\* the get that returned the TerminationToken has returned
TerminationDelivered ==
    /\ loopout # NoStep
    /\ loopout.cursor = Len(loopout.port)

\* C34: once its input port has delivered the TerminationToken, a
\* LoopOutputStep has terminated, whatever the tokens delivered before (none,
\* an iteration of size 0, tags of a single segment): it has left its loop,
\* and is not suspended on a further get.
C34_LoopOutputTerminates ==
    TerminationDelivered =>
        /\ loopout.pc = "done"
        /\ loopout.self.terminated

====
